---- MODULE Spec2Model ----
(***************************************************************************)
(* FindDupes: the two duplicate-detection pipelines (duplicate_finder.py,  *)
(* hash based with an on-disk cache; duplicate_file_finder.py, byte        *)
(* compare) and the action executor of duplicate_file_cleaner.py.          *)
(*                                                                         *)
(* File sizes are counted in blocks: a file's content is a sequence of     *)
(* blocks, and the chunk and buffer constants of the source are scaled to  *)
(* blocks so that a file of three blocks is longer than two chunks and has *)
(* a middle that the edge fingerprint never reads.                         *)
(***************************************************************************)
EXTENDS Integers, Sequences, FiniteSets, TLC

VARIABLES
    fs,        \* the scanned root: path -> file (content, mtime, mode) or NoFile
    cache,     \* root/finddupes_cache.json: NoCache or the file's content
    result,    \* what the last call returned or raised, and what it was given
    edits,     \* how many times the user has changed a file of the root
    dst,       \* the copy destination root: name -> file or NoFile
    report     \* the report file handed to the cleaner

vars == <<fs, cache, result, edits, dst, report>>

----------------------------------------------------------------------------
(* Bounds of the model *)

MaxFiles == 3
MaxMtime == 3
MaxEdits == 1
ManyFiles == 20

Paths == 1..MaxFiles
Bytes == {0, 1}
Sizes == {0, 1, 3}
\* the contents of 0, 1 or 3 blocks; those of 3 blocks start with block 0 and
\* differ in the middle block, in the last block, or not at all
Contents == {c \in UNION {[1..n -> Bytes] : n \in Sizes} : Len(c) > 1 => (c[1] = 0 /\ 0 \in {c[2], c[3]})}

\* the contents of at most one block
SmallContents == {c \in Contents : Len(c) <= 1}

----------------------------------------------------------------------------
(* Sequences and insertion-ordered dictionaries *)

Range(s) == {s[i] : i \in DOMAIN s}

Perms(S) == {s \in [1..Cardinality(S) -> S] : \A i, j \in DOMAIN s : i # j => s[i] # s[j]}

RECURSIVE SortedSeq(_)
SortedSeq(S) ==
    IF S = {} THEN <<>>
    ELSE LET m == CHOOSE x \in S : \A y \in S : x <= y
         IN <<m>> \o SortedSeq(S \ {m})

RECURSIVE Flatten(_)
Flatten(ss) == IF ss = <<>> THEN <<>> ELSE Head(ss) \o Flatten(Tail(ss))

\* items[i] for the positions in idx, in ascending position order
Pick(items, idx) == LET o == SortedSeq(idx) IN [k \in DOMAIN o |-> items[o[k]]]

\* a defaultdict(list) filled by `d[keys[i]].append(items[i])` for i = 1..n:
\* a sequence of [key, files] in first-insertion order of the keys
GroupKV(items, keys) ==
    LET first == {i \in DOMAIN keys : \A j \in 1..(i - 1) : keys[j] # keys[i]}
        fo == SortedSeq(first)
    IN [k \in DOMAIN fo |->
          [key |-> keys[fo[k]],
           files |-> Pick(items, {i \in DOMAIN keys : keys[i] = keys[fo[k]]})]]

\* the filter with its threshold off by one: a pair is no longer a group
MoreThanTwo(e) == Len(e.files) > 2

\* `if len(paths) > 1`: the entries of a dictionary that hold a group
MoreThanOne(e) == Len(e.files) > 1

----------------------------------------------------------------------------
(* The file system under the scanned root.  A disk d maps every path, the  *)
(* cache file's included, to a file or to NoFile.                          *)

NoFile == [exists |-> FALSE]
NoReport == [exists |-> FALSE]
\* a destination root that holds no file
NoDst == [name \in {} |-> NoFile]
File(c, m, md) == [exists |-> TRUE, content |-> c, mtime |-> m, mode |-> md]

CachePath == 0
AllPaths == Paths \cup {CachePath}

is_file(d, p) == d[p].exists
\* path.stat() succeeds; a path outside the model's tree is a deleted file
StatOk(d, p) == p \in DOMAIN d /\ d[p].exists /\ d[p].mode # "nostat"
\* the file can be opened and read; a symbolic link is read through
ReadOk(d, p) == d[p].exists /\ d[p].mode \in {"ok", "symlink"}
st_size(d, p) == Len(d[p].content)
st_mtime(d, p) == d[p].mtime

----------------------------------------------------------------------------
(* Hasher *)

CHUNK_SIZE == 1
EDGE_CHUNK_SIZE == 1
buffer_size == 2
HashSpace == 2

NoHash == -1

\* xxhash.xxh64().update(s).hexdigest(): a fingerprint in a space smaller than
\* the space of contents, so that two contents can share a fingerprint
RECURSIVE xxh64(_)
xxh64(s) ==
    IF s = <<>> THEN 0
    ELSE (xxh64(SubSeq(s, 1, Len(s) - 1)) + Len(s) * (s[Len(s)] + 1)) % HashSpace

FirstChunk(c, n) == SubSeq(c, 1, n)
LastChunk(c, n) == SubSeq(c, Len(c) - n + 1, Len(c))

get_partial_hash(d, p) ==
    IF ~ReadOk(d, p) THEN NoHash
    ELSE IF st_size(d, p) < CHUNK_SIZE * 2 THEN xxh64(d[p].content)
    ELSE xxh64(FirstChunk(d[p].content, CHUNK_SIZE) \o LastChunk(d[p].content, CHUNK_SIZE))

get_full_hash(d, p) == IF ~ReadOk(d, p) THEN NoHash ELSE xxh64(d[p].content)

NoChunks == <<>>

get_edge_chunks(d, p, size) ==
    IF ~ReadOk(d, p) THEN NoChunks
    ELSE IF size < EDGE_CHUNK_SIZE * 2 THEN d[p].content
    ELSE FirstChunk(d[p].content, EDGE_CHUNK_SIZE) \o LastChunk(d[p].content, EDGE_CHUNK_SIZE)

Read(c, pos, n) == SubSeq(c, pos + 1, IF pos + n < Len(c) THEN pos + n ELSE Len(c))

RECURSIVE CompareFrom(_, _, _)
CompareFrom(c1, c2, pos) ==
    LET b1 == Read(c1, pos, buffer_size)
        b2 == Read(c2, pos, buffer_size)
    IN IF b1 # b2 THEN FALSE
       ELSE IF b1 = <<>> THEN TRUE
       ELSE CompareFrom(c1, c2, pos + buffer_size)

\* open(file, "rb") succeeds
Readable(f) == f.exists /\ f.mode \in {"ok", "symlink"}

files_are_identical(file1, file2) ==
    IF ~Readable(file1) \/ ~Readable(file2) THEN FALSE
    ELSE CompareFrom(file1.content, file2.content, 0)

----------------------------------------------------------------------------
(* duplicate_finder.find_duplicates, the full scan (stages 1 to 3) *)

\* root_dir.rglob("*") filtered by is_file() and not is_symlink()
Walked(d) == {p \in AllPaths : is_file(d, p) /\ d[p].mode # "symlink"}

\* all_files_for_scan_and_cache, as paths in walk order
ScanFiles(d, walk) ==
    LET Keep(p) == StatOk(d, p) /\ st_size(d, p) > 0
    IN SelectSeq(walk, Keep)

PotentialDuplicates(d, walk) ==
    LET files == ScanFiles(d, walk)
    IN SelectSeq(GroupKV(files, [i \in DOMAIN files |-> st_size(d, files[i])]), MoreThanOne)

LikelyDuplicates(d, walk) ==
    LET pot == PotentialDuplicates(d, walk)
        cand == Flatten([k \in DOMAIN pot |-> pot[k].files])
        Hashed(p) == get_partial_hash(d, p) # NoHash
        files == SelectSeq(cand, Hashed)
        keys == [i \in DOMAIN files |-> <<st_size(d, files[i]), get_partial_hash(d, files[i])>>]
    IN SelectSeq(GroupKV(files, keys), MoreThanOne)

FilesToHash(d, walk) ==
    LET likely == LikelyDuplicates(d, walk)
    IN UNION {Range(likely[k].files) : k \in DOMAIN likely}

\* full_hashes_map, filled in the iteration order of the set files_to_hash
FullHashesMap(d, order) ==
    LET Hashed(p) == get_full_hash(d, p) # NoHash
        files == SelectSeq(order, Hashed)
    IN GroupKV(files, [i \in DOMAIN files |-> get_full_hash(d, files[i])])

ConfirmedDuplicates(map) ==
    LET dup == SelectSeq(map, MoreThanOne)
    IN [k \in DOMAIN dup |-> dup[k].files]

Metadata(d, files) == [i \in DOMAIN files |-> <<files[i], st_size(d, files[i]), st_mtime(d, files[i])>>]

\* what one full scan of disk d computes, for a walk order and a hashing order
FullScan(d, walk, order) ==
    LET map == FullHashesMap(d, order)
    IN [groups |-> ConfirmedDuplicates(map),
        meta |-> Metadata(d, ScanFiles(d, walk)),
        map |-> map]

----------------------------------------------------------------------------
(* duplicate_file_finder.find_duplicates: size, edge chunks, byte compare *)

\* all_paths: rglob filtered by is_file() alone
AllPathsWalked(d) == {p \in AllPaths : is_file(d, p)}

get_file_stats(d, p) == StatOk(d, p) /\ st_size(d, p) > 0

\* files of one size bucket in the order their futures complete
Completed(files, done) ==
    LET In(p) == p \in Range(files)
    IN SelectSeq(done, In)

EdgeGroups(d, bucket, done) ==
    LET files == Completed(bucket.files, done)
        Got(p) == get_edge_chunks(d, p, bucket.key) # <<>>
        ok == SelectSeq(files, Got)
        groups == SelectSeq(GroupKV(ok, [i \in DOMAIN ok |-> get_edge_chunks(d, ok[i], bucket.key)]),
                            MoreThanOne)
    IN [k \in DOMAIN groups |-> groups[k].files]

\* potential_dupes_by_size, in the order the sizes were first seen
PotentialDupesBySize(d, statDone) ==
    LET Keep(p) == get_file_stats(d, p)
        files == SelectSeq(statDone, Keep)
    IN SelectSeq(GroupKV(files, [i \in DOMAIN files |-> st_size(d, files[i])]), MoreThanOne)

\* the files whose edge chunks phase 2 reads
EdgeFiles(d) ==
    {p \in AllPathsWalked(d) :
        get_file_stats(d, p) /\ \E q \in AllPathsWalked(d) \ {p} :
                                   get_file_stats(d, q) /\ st_size(d, q) = st_size(d, p)}

LikelyDupes(d, statDone, edgeDone) ==
    LET buckets == PotentialDupesBySize(d, statDone)
    IN Flatten([k \in DOMAIN buckets |-> EdgeGroups(d, buckets[k], edgeDone)])

\* itertools.combinations(group, 2)
RECURSIVE Combinations2(_, _, _)
Combinations2(g, i, j) ==
    IF i >= Len(g) THEN <<>>
    ELSE IF j > Len(g) THEN Combinations2(g, i + 1, i + 2)
    ELSE <<(<<g[i], g[j]>>)>> \o Combinations2(g, i, j + 1)

Min(S) == CHOOSE x \in S : \A y \in S : x <= y

\* the loop over the pairs of one group: confirmed is a list of sets
RECURSIVE VerifyPairs(_, _, _, _)
VerifyPairs(d, pairs, confirmed, checked) ==
    IF pairs = <<>> THEN confirmed
    ELSE LET file1 == Head(pairs)[1]
             file2 == Head(pairs)[2]
         IN IF file1 \in checked /\ file2 \in checked
            THEN VerifyPairs(d, Tail(pairs), confirmed, checked)
            ELSE IF files_are_identical(d[file1], d[file2])
            THEN LET found == {k \in DOMAIN confirmed : file1 \in confirmed[k] \/ file2 \in confirmed[k]}
                     next == IF found # {}
                             THEN [confirmed EXCEPT ![Min(found)] = @ \cup {file1, file2}]
                             ELSE Append(confirmed, {file1, file2})
                 IN VerifyPairs(d, Tail(pairs), next, checked \cup {file1, file2})
            ELSE VerifyPairs(d, Tail(pairs), confirmed, checked)

RECURSIVE VerifyGroups(_, _, _)
VerifyGroups(d, likely, confirmed) ==
    IF likely = <<>> THEN confirmed
    ELSE VerifyGroups(d, Tail(likely),
                      VerifyPairs(d, Combinations2(Head(likely), 1, 2), confirmed, {}))

ByteScan(d, statDone, edgeDone) ==
    LET confirmed == VerifyGroups(d, LikelyDupes(d, statDone, edgeDone), <<>>)
        Keep(p) == get_file_stats(d, p)
    IN [groups |-> [k \in DOMAIN confirmed |-> SortedSeq(confirmed[k])],
        meta |-> Metadata(d, SelectSeq(statDone, Keep)),
        map |-> <<>>]

----------------------------------------------------------------------------
(* The scan cache: root/finddupes_cache.json *)

CONSISTENCY_CHECK_PERCENTAGE == 10
MtimeTolerance == 1

NoCache == [exists |-> FALSE]

\* the cache file seen as a file of the root: its text is longer than every
\* user file of the model and grows with the number of metadata entries
CacheFile(c) ==
    IF ~c.exists THEN NoFile
    ELSE File([i \in 1..(4 + Len(c.meta)) |-> 2], c.mtime, "ok")

Disk(tree, c) == [p \in AllPaths |-> IF p = CachePath THEN CacheFile(c) ELSE tree[p]]

\* str(path) and Path(text)
str(p) == [text |-> p]
\* the text read back as the root itself, whatever it says
PathRoot(s) == CachePath
Path(s) == s.text

StrEntry(e) == [key |-> e.key, files |-> [i \in DOMAIN e.files |-> str(e.files[i])]]
PathEntry(e) == [key |-> e.key, files |-> [i \in DOMAIN e.files |-> Path(e.files[i])]]

\* the file that save_cache writes at time t
save_cache(confirmed_duplicates, all_files_metadata, full_hashes_map, t) ==
    [exists |-> TRUE, kind |-> "ok", mtime |-> t,
     groups |-> [g \in DOMAIN confirmed_duplicates |->
                   [i \in DOMAIN confirmed_duplicates[g] |-> str(confirmed_duplicates[g][i])]],
     meta |-> [i \in DOMAIN all_files_metadata |->
                 <<str(all_files_metadata[i][1]), all_files_metadata[i][2], all_files_metadata[i][3]>>],
     map |-> [k \in DOMAIN full_hashes_map |-> StrEntry(full_hashes_map[k])]]

\* a cache file whose text is not what save_cache writes; kind says how
BadCache(kind, t) ==
    [exists |-> TRUE, kind |-> kind, mtime |-> t, groups |-> <<>>, meta |-> <<>>, map |-> <<>>]

\* the exception load_cache raises on a cache file of each kind
LoadError(kind) ==
    CASE kind = "ok" -> "none"
      [] kind = "notjson" -> "JSONDecodeError"
      [] kind = "nokey" -> "KeyError"
      [] kind = "notobject" -> "TypeError"
      [] kind = "badentry" -> "ValueError"

load_cache(c) ==
    [exc |-> LoadError(c.kind),
     groups |-> [g \in DOMAIN c.groups |-> [i \in DOMAIN c.groups[g] |-> Path(c.groups[g][i])]],
     meta |-> [i \in DOMAIN c.meta |-> <<Path(c.meta[i][1]), c.meta[i][2], c.meta[i][3]>>],
     map |-> [k \in DOMAIN c.map |-> PathEntry(c.map[k])]]

\* except (json.JSONDecodeError, KeyError, IndexError)
Caught(exc) == exc \in {"JSONDecodeError", "KeyError", "IndexError"}

Max(a, b) == IF a >= b THEN a ELSE b
Abs(x) == IF x < 0 THEN -x ELSE x

num_to_check(n) == Max(1, (n * CONSISTENCY_CHECK_PERCENTAGE) \div 100)

\* random.sample(population of n, k): k distinct positions, in any order
RECURSIVE Samples(_, _)
Samples(n, k) ==
    IF k = 0 THEN {<<>>}
    ELSE UNION {{Append(s, i) : i \in (1..n) \ Range(s)} : s \in Samples(n, k - 1)}

\* one pass of the verification loop: the entry still matches the disk
EntryConsistent(d, e) ==
    /\ StatOk(d, e[1])
    /\ st_size(d, e[1]) = e[2]
    /\ Abs(st_mtime(d, e[1]) - e[3]) <= MtimeTolerance

\* the verification loop finding every cache inconsistent
is_consistent_never(d, meta, sample) == FALSE

is_consistent(d, meta, sample) == \A i \in DOMAIN sample : EntryConsistent(d, meta[sample[i]])

----------------------------------------------------------------------------
(* duplicate_finder.find_duplicates(root_dir, force_rescan) *)

NoResult == [fn |-> "none"]

PathsOf(meta) == [i \in DOMAIN meta |-> meta[i][1]]

\* the record of one call: what it was given, what it did, what it returned
Call(force, before) ==
    [fn |-> "find_duplicates", force |-> force, before |-> before, tree |-> fs,
     status |-> "returned", exc |-> "none",
     loaded |-> FALSE, n |-> 0, sample |-> <<>>, stale |-> FALSE,
     unlinked |-> FALSE, scanned |-> FALSE,
     groups |-> <<>>, files |-> <<>>, map |-> <<>>]

Raised(call, exc) == [call EXCEPT !.status = "raised", !.exc = exc]

\* the orders in which one scan can meet the files: the walk order of rglob
\* and the iteration order of the set files_to_hash.  With inPathOrder the
\* platform delivers both in ascending path order.
ScanOrders(d, inPathOrder) ==
    IF inPathOrder
    THEN {<<SortedSeq(Walked(d)), SortedSeq(FilesToHash(d, SortedSeq(Walked(d))))>>}
    ELSE UNION {{<<w, o>> : o \in Perms(FilesToHash(d, w))} : w \in Perms(Walked(d))}

\* lines 186-265: scan disk d, save the cache at time t, return
ScanAndSave(d, call, t, inPathOrder) ==
    {LET s == FullScan(d, walk, order)
     IN [cache |-> save_cache(s.groups, s.meta, s.map, t),
         result |-> [call EXCEPT !.scanned = TRUE, !.groups = s.groups,
                                 !.files = PathsOf(s.meta), !.map = s.map]] :
       <<walk, order>> \in ScanOrders(d, inPathOrder)}

\* lines 126-183: the cache is there and the rescan is not forced
UseCache(call, t, inPathOrder) ==
    LET l == load_cache(cache)
        n == Len(l.meta)
        k == num_to_check(n)
        d == Disk(fs, cache)
        rescans == ScanAndSave(Disk(fs, NoCache), [call EXCEPT !.unlinked = TRUE], t, inPathOrder)
    IN IF Caught(l.exc)
       THEN rescans
       ELSE IF l.exc # "none"
       THEN {[cache |-> cache, result |-> Raised(call, l.exc)]}
       ELSE IF k > n
       THEN {[cache |-> cache, result |-> Raised([call EXCEPT !.loaded = TRUE, !.n = n], "ValueError")]}
       ELSE UNION {
              IF is_consistent(d, l.meta, sample)
              THEN {[cache |-> cache,
                     result |-> [call EXCEPT !.loaded = TRUE, !.n = n, !.sample = sample,
                                             !.groups = l.groups, !.files = PathsOf(l.meta),
                                             !.map = l.map]]}
              ELSE {[o EXCEPT !.result.loaded = TRUE, !.result.n = n, !.result.sample = sample,
                              !.result.stale = TRUE] : o \in rescans} :
              sample \in Samples(n, k)}

find_duplicates(force, t, inPathOrder) ==
    IF cache.exists /\ ~force
    THEN UseCache(Call(force, cache), t, inPathOrder)
    ELSE ScanAndSave(Disk(fs, cache), Call(force, cache), t, inPathOrder)

FindDuplicates(force, t, inPathOrder) ==
    \E o \in find_duplicates(force, t, inPathOrder) :
        /\ cache' = o.cache
        /\ result' = o.result
        /\ UNCHANGED <<fs, edits, dst, report>>

\* duplicate_file_finder.find_duplicates(root_dir): no cache is read or written
FindDuplicatesBytes ==
    \E statDone \in Perms(AllPathsWalked(Disk(fs, cache))) :
      \E edgeDone \in Perms(EdgeFiles(Disk(fs, cache))) :
        LET s == ByteScan(Disk(fs, cache), statDone, edgeDone)
        IN /\ result' = [fn |-> "find_duplicates_bytes", status |-> "returned",
                         tree |-> fs, groups |-> s.groups, files |-> PathsOf(s.meta),
                         meta |-> s.meta]
           /\ UNCHANGED <<fs, cache, edits, dst, report>>

----------------------------------------------------------------------------
(* duplicate_file_cleaner: one copy task, one delete task *)

\* the relative path of root file p, which is also its name under the copy
\* destination.  File 3 is named like the first suffixed variant of file 1
\* ("a_1.txt" beside "a.txt").
Name(p) == IF p = 3 THEN <<1, 1>> ELSE <<p>>

\* dest_base_path.with_stem(f"{dest_base_path.stem}_{counter}")
with_stem(dest_base_path, counter) == Append(dest_base_path, counter)

\* "N/A" in the Destination column
NA == <<>>

FailedAction(source, destination, error) ==
    [Source |-> source, Destination |-> destination, Error |-> error]

\* what a task did: the trees it leaves, what it returned or raised
Outcome(d, dd, status, failed, io) ==
    [fs |-> d, dst |-> dd, status |-> status, failed |-> failed, io |-> io]

\* the loop without the comparison: every existing candidate is passed over
RECURSIVE FindFreePath(_, _, _, _)
FindFreePath(dd, source, dest_base_path, counter) ==
    LET dest_path == IF counter = 0 THEN dest_base_path
                     ELSE Append(dest_base_path, counter)
    IN IF dest_path \notin DOMAIN dd THEN [identical |-> FALSE, dest_path |-> dest_path]
       ELSE FindFreePath(dd, source, dest_base_path, counter + 1)

\* the loop without the renaming: a differing destination file is overwritten
FindDestPathOverwrite(dd, source, dest_base_path, counter) ==
    [identical |-> dest_base_path \in DOMAIN dd /\ files_are_identical(source, dd[dest_base_path]),
     dest_path |-> dest_base_path]

\* the while loop of lines 243-252 from `counter`: the name the copy goes to,
\* or `identical` when an existing candidate holds the source's content
RECURSIVE FindDestPath(_, _, _, _)
FindDestPath(dd, source, dest_base_path, counter) ==
    LET dest_path == IF counter = 0 THEN dest_base_path
                     ELSE with_stem(dest_base_path, counter)
    IN IF dest_path \notin DOMAIN dd THEN [identical |-> FALSE, dest_path |-> dest_path]
       ELSE IF files_are_identical(source, dd[dest_path])
       THEN [identical |-> TRUE, dest_path |-> dest_path]
       ELSE FindDestPath(dd, source, dest_base_path, counter + 1)

\* shutil.copy2: content and modification time
CopyTo(dd, dest_path, source) ==
    [name \in DOMAIN dd \cup {dest_path} |->
        IF name = dest_path THEN File(source.content, source.mtime, "ok") ELSE dd[name]]

\* the copy task without the skip-existing test of lines 241-242
perform_single_copy_noskip(d, dd, source_path, dest_base_path, skip_existing, destInside, ioFail) ==
    IF ~d[source_path].exists
    THEN Outcome(d, dd, "returned", <<FailedAction(source_path, NA, "Source file not found.")>>, "none")
    ELSE IF st_size(d, source_path) = 0
    THEN Outcome(d, dd, "returned", <<FailedAction(source_path, NA, "Skipped: 0-byte file.")>>, "none")
    ELSE LET found == FindDestPath(dd, d[source_path], dest_base_path, 0)
         IN IF found.identical
            THEN Outcome(d, dd, "returned", <<>>, "none")
            ELSE IF ~ioFail
            THEN Outcome(d, CopyTo(dd, found.dest_path, d[source_path]), "returned", <<>>, "copied")
            ELSE IF destInside
            THEN Outcome(d, dd, "returned",
                         <<FailedAction(source_path, found.dest_path, "OSError")>>, "failed")
            ELSE Outcome(d, dd, "raised", <<>>, "failed")

\* _perform_single_copy on root d and destination dd.  destInside: the
\* destination root lies under root_dir; ioFail: shutil.copy2 raises.
perform_single_copy(d, dd, source_path, dest_base_path, skip_existing, destInside, ioFail) ==
    IF ~d[source_path].exists
    THEN Outcome(d, dd, "returned", <<FailedAction(source_path, NA, "Source file not found.")>>, "none")
    ELSE IF st_size(d, source_path) = 0
    THEN Outcome(d, dd, "returned", <<FailedAction(source_path, NA, "Skipped: 0-byte file.")>>, "none")
    ELSE IF skip_existing /\ dest_base_path \in DOMAIN dd
    THEN Outcome(d, dd, "returned", <<>>, "none")
    ELSE LET found == FindDestPath(dd, d[source_path], dest_base_path, 0)
         IN IF found.identical
            THEN Outcome(d, dd, "returned", <<>>, "none")
            ELSE IF ~ioFail
            THEN Outcome(d, CopyTo(dd, found.dest_path, d[source_path]), "returned", <<>>, "copied")
            \* the handler: dest_path.relative_to(root_dir) raises ValueError
            \* for a destination that is not under the root
            ELSE IF destInside
            THEN Outcome(d, dd, "returned",
                         <<FailedAction(source_path, found.dest_path, "OSError")>>, "failed")
            ELSE Outcome(d, dd, "raised", <<>>, "failed")

\* _perform_single_delete; ioFail: os.remove or send2trash raises
perform_single_delete(d, dd, file_path, use_trash, ioFail) ==
    IF ~d[file_path].exists \/ ioFail
    THEN Outcome(d, dd, "returned", <<FailedAction(file_path, NA, "OSError")>>, "failed")
    ELSE Outcome([d EXCEPT ![file_path] = NoFile], dd, "returned", <<>>,
                 IF use_trash THEN "trashed" ELSE "removed")

\* the record of one task call
TaskCall(fn, source, dest_base, flag, o) ==
    [fn |-> fn, source |-> source, dest_base |-> dest_base, flag |-> flag,
     status |-> o.status, exc |-> IF o.status = "raised" THEN "ValueError" ELSE "none",
     failed |-> o.failed, io |-> o.io, tree |-> fs, dest |-> dst]

PerformSingleCopy(source_path, dest_base_path, skip_existing, destInside, ioFail) ==
    LET o == perform_single_copy(fs, dst, source_path, dest_base_path, skip_existing,
                                 destInside, ioFail)
    IN /\ dst' = o.dst
       /\ result' = TaskCall("_perform_single_copy", source_path, dest_base_path, skip_existing, o)
       /\ UNCHANGED <<fs, cache, edits, report>>

PerformSingleDelete(file_path, use_trash, ioFail) ==
    LET o == perform_single_delete(fs, dst, file_path, use_trash, ioFail)
    IN /\ fs' = o.fs
       /\ result' = TaskCall("_perform_single_delete", file_path, NA, use_trash, o)
       /\ UNCHANGED <<dst, cache, edits, report>>

----------------------------------------------------------------------------
(* duplicate_file_cleaner: reading the tasks of a report *)

\* A report file: its suffix, the sheet of an XLSX workbook that holds the
\* rows, whether it carries the summary values, its rows in order, and the
\* failed actions appended to it.  A row is [keep, files]: the 1-based Keep
\* column and the relative paths; a JSON record stores keep_index = keep - 1,
\* and a row of one file is a JSON record of type unique_file.
Report(suffix, sheet, summary, rows) ==
    [exists |-> TRUE, suffix |-> suffix, sheet |-> sheet, summary |-> summary,
     rows |-> rows, failed |-> <<>>]

Task(type, source, dest, row) == [type |-> type, source |-> source, dest |-> dest, row |-> row]

ReadResult(exc, tasks, summary) == [exc |-> exc, tasks |-> tasks, summary |-> summary]

\* the copy task of a keeper or unique file, if the file exists
CopyTask(d, file, i) ==
    IF d[file].exists THEN <<Task("copy", file, Name(file), i)>> ELSE <<>>

\* the delete tasks of a row: every existing file but the one at keep_index
DeleteTasks(d, files, keep_index, i) ==
    LET Wanted(j) == j - 1 # keep_index /\ d[files[j]].exists
        idx == SelectSeq([j \in DOMAIN files |-> j], Wanted)
    IN [m \in DOMAIN idx |-> Task("delete", files[idx[m]], NA, i)]

\* the loop of _read_tasks_from_json from record k on
RECURSIVE JsonTasks(_, _, _, _, _)
JsonTasks(rows, k, d, copy, tasks) ==
    IF k > Len(rows) THEN ReadResult("none", tasks, FALSE)
    ELSE LET files == rows[k].files
             n == Len(files)
             keep_index == rows[k].keep - 1
             \* file_paths_str[keep_index]: a negative index counts from the end
             at == IF keep_index < 0 THEN n + keep_index + 1 ELSE keep_index + 1
         IN IF n = 1
            THEN JsonTasks(rows, k + 1, d, copy,
                           IF copy THEN tasks \o CopyTask(d, files[1], 0) ELSE tasks)
            ELSE IF at < 1 \/ at > n
            THEN ReadResult("IndexError", tasks, FALSE)
            ELSE JsonTasks(rows, k + 1, d, copy,
                           IF copy THEN tasks \o CopyTask(d, files[at], 0)
                           ELSE tasks \o DeleteTasks(d, files, keep_index, 0))

read_tasks_from_json(rep, d, copy) ==
    LET r == JsonTasks(rep.rows, 1, d, copy, <<>>)
    IN ReadResult(r.exc, r.tasks, rep.summary)

\* the loop of _read_tasks_from_xlsx from the k-th data row on (sheet row k + 1)
RECURSIVE XlsxTasks(_, _, _, _, _)
XlsxTasks(rows, k, d, copy, tasks) ==
    IF k > Len(rows) THEN tasks
    ELSE LET files == rows[k].files
             keep_index == rows[k].keep - 1
         IN IF ~(0 <= keep_index /\ keep_index < Len(files))
            THEN XlsxTasks(rows, k + 1, d, copy, tasks)
            ELSE XlsxTasks(rows, k + 1, d, copy,
                           IF copy THEN tasks \o CopyTask(d, files[keep_index + 1], k + 1)
                           ELSE tasks \o DeleteTasks(d, files, keep_index, k + 1))

read_tasks_from_xlsx(rep, d, copy) ==
    IF rep.sheet \notin {"Files to Process", "Duplicates"}
    THEN ReadResult("none", <<>>, FALSE)
    ELSE ReadResult("none", XlsxTasks(rep.rows, 1, d, copy, <<>>), rep.summary)

----------------------------------------------------------------------------
(* duplicate_file_cleaner.process_report_actions *)

MaxCpus == 4

\* what one run did: the trees and the report it leaves, how it ended, the
\* tasks it read, its success count and its failure list
Run(d, dd, rep, status, exc, tasks, processed, failed) ==
    [fs |-> d, dst |-> dd, report |-> rep, status |-> status, exc |-> exc,
     tasks |-> tasks, processed |-> processed, failed |-> failed]

\* the tasks of a run executed one after the other in the order `order`, the
\* tasks in `fails` meeting an I/O error; st collects what they leave
RECURSIVE RunInOrder(_, _, _, _, _, _, _)
RunInOrder(st, tasks, order, fails, use_trash, skip_existing, destInside) ==
    IF order = <<>> THEN st
    ELSE LET i == Head(order)
             o == IF tasks[i].type = "copy"
                  THEN perform_single_copy(st.fs, st.dst, tasks[i].source, tasks[i].dest,
                                           skip_existing, destInside, i \in fails)
                  ELSE perform_single_delete(st.fs, st.dst, tasks[i].source, use_trash, i \in fails)
             next == [fs |-> o.fs, dst |-> o.dst,
                      failed |-> st.failed \o o.failed,
                      processed |-> st.processed +
                                    (IF o.status = "returned" /\ o.failed = <<>> THEN 1 ELSE 0),
                      raised |-> st.raised \/ o.status = "raised"]
         IN RunInOrder(next, tasks, Tail(order), fails, use_trash, skip_existing, destInside)

\* _update_report_with_failed_actions: openpyxl cannot load a JSON report, and
\* the function swallows that exception
update_report_with_failed_actions(rep, failed_actions) ==
    IF failed_actions = <<>> \/ rep.suffix # ".xlsx" THEN rep
    ELSE [rep EXCEPT !.failed = @ \o failed_actions]

\* lines 176-203 and 213-230 on a machine with cpus processors
ExecuteTasks(d, dd, rep, tasks, use_trash, copy_destination, skip_existing, cpus) ==
    IF cpus - 2 <= 0
    THEN {Run(d, dd, rep, "raised", "ValueError", tasks, 0, <<>>)}
    ELSE {LET st == RunInOrder([fs |-> d, dst |-> dd, failed |-> <<>>, processed |-> 0,
                                raised |-> FALSE],
                               tasks, order, fails, use_trash, skip_existing,
                               copy_destination = "inside")
          IN IF st.raised
             THEN Run(st.fs, st.dst, rep, "raised", "ValueError", tasks, 0, <<>>)
             ELSE Run(st.fs, st.dst, update_report_with_failed_actions(rep, st.failed),
                      "returned", "none", tasks, st.processed, st.failed) :
            order \in Perms(DOMAIN tasks), fails \in SUBSET DOMAIN tasks}

\* lines 136-230: the tasks are read and, unless dry_run, executed
ReadAndExecute(d, dd, rep, dry_run, use_trash, copy_destination, skip_existing) ==
    LET copy == copy_destination # "none"
        r == IF rep.suffix = ".json" THEN read_tasks_from_json(rep, d, copy)
             ELSE read_tasks_from_xlsx(rep, d, copy)
        nothing == {Run(d, dd, rep, "returned", "none", r.tasks, 0, <<>>)}
    IN IF rep.suffix \notin {".json", ".xlsx"}
       THEN {Run(d, dd, rep, "returned", "none", <<>>, 0, <<>>)}
       ELSE IF r.exc # "none"
       THEN {Run(d, dd, rep, "raised", r.exc, <<>>, 0, <<>>)}
       ELSE IF r.tasks = <<>> \/ dry_run
       THEN nothing
       ELSE (IF copy /\ r.summary THEN nothing ELSE {}) \cup
            UNION {ExecuteTasks(d, dd, rep, r.tasks, use_trash, copy_destination,
                                skip_existing, cpus) : cpus \in 1..MaxCpus}

\* the function with its sheet lookup left out and its dry-run test dropped
process_report_actions_always(d, dd, rep, dry_run, use_trash, copy_destination, skip_existing) ==
    IF ~rep.exists
    THEN {Run(d, dd, rep, "returned", "none", <<>>, 0, <<>>)}
    ELSE ReadAndExecute(d, dd, rep, FALSE, use_trash, copy_destination, skip_existing)

\* line 128 reads `workbook`, a name that neither the function nor the module
\* binds: the lookup raises NameError whatever the report holds
WorkbookBound == FALSE

process_report_actions(d, dd, rep, dry_run, use_trash, copy_destination, skip_existing) ==
    IF ~rep.exists
    THEN {Run(d, dd, rep, "returned", "none", <<>>, 0, <<>>)}
    ELSE IF ~WorkbookBound
    THEN {Run(d, dd, rep, "raised", "NameError", <<>>, 0, <<>>)}
    ELSE ReadAndExecute(d, dd, rep, dry_run, use_trash, copy_destination, skip_existing)

ProcessReportActions(dry_run, use_trash, copy_destination, skip_existing) ==
    \E o \in process_report_actions(fs, dst, report, dry_run, use_trash, copy_destination,
                                    skip_existing) :
        /\ fs' = o.fs
        /\ dst' = o.dst
        /\ report' = o.report
        /\ result' = [fn |-> "process_report_actions", dry_run |-> dry_run,
                      use_trash |-> use_trash, copy_destination |-> copy_destination,
                      skip_existing |-> skip_existing, status |-> o.status, exc |-> o.exc,
                      tasks |-> o.tasks, processed |-> o.processed, failed |-> o.failed,
                      tree |-> fs, dest |-> dst, report |-> report]
        /\ UNCHANGED <<cache, edits>>

\* the readers called on the report: what they return or raise
ReadTasksFromJson(copy) ==
    /\ report.exists /\ report.suffix = ".json"
    /\ result' = [fn |-> "_read_tasks_from_json", copy |-> copy, tree |-> fs, report |-> report,
                  read |-> read_tasks_from_json(report, fs, copy)]
    /\ UNCHANGED <<fs, dst, report, cache, edits>>

ReadTasksFromXlsx(copy) ==
    /\ report.exists /\ report.suffix = ".xlsx"
    /\ result' = [fn |-> "_read_tasks_from_xlsx", copy |-> copy, tree |-> fs, report |-> report,
                  read |-> read_tasks_from_xlsx(report, fs, copy)]
    /\ UNCHANGED <<fs, dst, report, cache, edits>>

----------------------------------------------------------------------------
(* The pipelines on every small tree: one call of either variant *)

Trees == [Paths -> {NoFile} \cup {File(c, 1, "ok") : c \in Contents}]

\* the tree with the file at p, if any, made unreadable
Unreadable(tree, p) ==
    [q \in Paths |-> IF q = p /\ tree[q].exists THEN [tree[q] EXCEPT !.mode = "noread"] ELSE tree[q]]

InitPipe ==
    /\ fs \in {Unreadable(tree, p) : tree \in Trees, p \in {0, 1}}
    /\ cache = NoCache
    /\ result = NoResult
    /\ edits = 0
    /\ dst = NoDst
    /\ report = NoReport

NextPipe ==
    /\ result = NoResult
    /\ \/ FindDuplicates(FALSE, 1, FALSE)
       \/ FindDuplicatesBytes

SpecPipe == InitPipe /\ [][NextPipe]_vars

----------------------------------------------------------------------------
(* Properties of one full scan *)

\* a call of either variant has returned what a full scan of fs computed
ScanReturned ==
    \/ result.fn = "find_duplicates_bytes"
    \/ result.fn = "find_duplicates" /\ result.status = "returned" /\ result.scanned

\* regular, non-empty, readable files of the scanned tree
Scannable(p) == fs[p].exists /\ fs[p].mode = "ok" /\ st_size(fs, p) > 0

SameGroup(p, q) == \E k \in DOMAIN result.groups : {p, q} \subseteq Range(result.groups[k])

\* C1: after a full scan by either variant, any two distinct regular,
\* non-empty, readable files of the tree whose byte contents are equal are
\* members of one and the same returned duplicate group.
C1_IdenticalFilesGrouped ==
    ScanReturned =>
        \A p, q \in Paths :
            (p # q /\ Scannable(p) /\ Scannable(q) /\ fs[p].content = fs[q].content)
                => SameGroup(p, q)

\* the byte-compare variant has scanned two identical three-block files beside
\* a third of the same size and edges, grouped the two and left the third out
C1_Witness ==
    /\ result.fn = "find_duplicates_bytes"
    /\ \E p, q, r \in Paths :
          /\ p # q /\ Scannable(p) /\ Scannable(q) /\ Scannable(r)
          /\ fs[p].content = fs[q].content /\ st_size(fs, p) > 2 * EDGE_CHUNK_SIZE
          /\ st_size(fs, r) = st_size(fs, p) /\ fs[r].content # fs[p].content
          /\ get_edge_chunks(fs, r, st_size(fs, r)) = get_edge_chunks(fs, p, st_size(fs, p))
          /\ SameGroup(p, q) /\ ~SameGroup(p, r)

\* C2: no returned duplicate group holds two files whose byte contents
\* differ, whatever their sizes, edge chunks and fingerprints are.
C2_NoDifferingFilesGrouped ==
    ScanReturned =>
        \A k \in DOMAIN result.groups :
            \A p, q \in Range(result.groups[k]) : fs[p].content = fs[q].content

\* a list of paths in ascending order
SortedByPath(group) == \A i, j \in DOMAIN group : i < j => group[i] < group[j]

\* C23: every group a scan of either variant returns lists its members in
\* ascending path order, whatever the order of the walk, of the hashing and
\* of the completed tasks.
C23_GroupsSortedByPath ==
    (ScanReturned /\ result.fn \in {"find_duplicates", "find_duplicates_bytes"}) =>
        \A k \in DOMAIN result.groups : SortedByPath(result.groups[k])

----------------------------------------------------------------------------
(* The cache across runs: the user changes files of the root between calls *)

Now == MaxMtime

\* the non-empty contents whose blocks are all 0
PlainContents == {c \in Contents : Len(c) > 0 /\ \A i \in DOMAIN c : c[i] = 0}

\* the cache a scan wrote when the root held ManyFiles one-block files with
\* equal contents and mtime 1; only those at Paths may still be there
OldCache ==
    LET files == [i \in 1..ManyFiles |-> i]
        one == CHOOSE c \in PlainContents : Len(c) = 1
    IN save_cache(<<files>>, [i \in 1..ManyFiles |-> <<i, 1, 1>>],
                  <<[key |-> xxh64(one), files |-> files]>>, 1)

CacheKinds == {"notjson", "nokey", "notobject", "badentry"}

\* the user deletes a file of the root
DeleteFile(p) ==
    /\ edits < MaxEdits
    /\ fs[p].exists
    /\ fs' = [fs EXCEPT ![p] = NoFile]
    /\ edits' = edits + 1
    /\ UNCHANGED <<cache, result, dst, report>>

\* the user writes content c to a file of the root at time m
WriteFile(p, c, m) ==
    /\ edits < MaxEdits
    /\ fs[p] # File(c, m, "ok")
    /\ fs' = [fs EXCEPT ![p] = File(c, m, "ok")]
    /\ edits' = edits + 1
    /\ UNCHANGED <<cache, result, dst, report>>

InitCache ==
    /\ fs \in [Paths -> {NoFile} \cup {File(c, 1, "ok") : c \in PlainContents}]
    /\ cache \in {NoCache, OldCache} \cup {BadCache(kind, 1) : kind \in CacheKinds}
    /\ result = NoResult
    \* the deletions that left an old cache behind were the user's edits
    /\ edits = IF cache = OldCache THEN MaxEdits ELSE 0
    /\ dst = NoDst
    /\ report = NoReport

NextCache ==
    \/ \E force \in BOOLEAN : FindDuplicates(force, Now, TRUE)
    \/ \E p \in Paths : DeleteFile(p)
    \/ \E p \in Paths, c \in PlainContents, m \in 1..MaxMtime : WriteFile(p, c, m)

SpecCache == InitCache /\ [][NextCache]_vars

----------------------------------------------------------------------------
(* Properties of the cache protocol *)

\* the last call was a non-forced find_duplicates that found a cache file
CacheTried == result.fn = "find_duplicates" /\ ~result.force /\ result.before.exists

\* a cached entry no longer describes the file on the disk the call saw
EntryChanged(e) ==
    LET d == Disk(result.tree, result.before)
        p == Path(e[1])
    IN \/ ~(p \in DOMAIN d /\ d[p].exists)
       \/ Len(d[p].content) # e[2]
       \/ Abs(d[p].mtime - e[3]) > 1

\* C9: a non-forced run that finds a parsable cache of n entries samples
\* max(1, floor(n / 10)) of them, and declares the cache stale exactly when a
\* sampled entry's file is missing, has another size, or has a modification
\* time more than 1 second away from the cached one.
C9_StalenessSampling ==
    (CacheTried /\ result.before.kind = "ok") =>
        LET meta == result.before.meta
            n == Len(meta)
        IN /\ result.status = "returned"
           /\ Len(result.sample) = Max(1, n \div 10)
           /\ Cardinality(Range(result.sample)) = Len(result.sample)
           /\ Range(result.sample) \subseteq 1..n
           /\ result.stale <=> \E i \in DOMAIN result.sample : EntryChanged(meta[result.sample[i]])

\* C10: a non-forced run that finds a cache file never raises; when the file
\* is stale or is not what save_cache writes, the run deletes it, scans the
\* tree, returns the scan's groups and leaves a new cache holding them.
C10_CacheFallback ==
    CacheTried =>
        /\ result.status = "returned"
        /\ (result.stale \/ result.before.kind # "ok") =>
              /\ result.unlinked /\ result.scanned
              /\ cache.exists /\ cache.kind = "ok"
              /\ load_cache(cache).groups = result.groups

\* the sampled entries all still describe the disk the call saw
SamplePassed ==
    /\ CacheTried /\ result.before.kind = "ok"
    /\ Len(result.sample) >= 1
    /\ \A i \in DOMAIN result.sample : ~EntryChanged(result.before.meta[result.sample[i]])

\* C11: a non-forced run whose cache passes the staleness check returns the
\* cached groups, file list and fingerprint map, walks and hashes nothing,
\* and leaves the cache file as it found it.
C11_FreshCacheTrusted ==
    SamplePassed =>
        LET l == load_cache(result.before)
        IN /\ result.status = "returned"
           /\ ~result.scanned /\ ~result.unlinked
           /\ result.groups = l.groups
           /\ result.files = PathsOf(l.meta)
           /\ result.map = l.map
           /\ cache = result.before

\* a fresh cache holding a duplicate group was returned without a scan
C11_Witness ==
    /\ SamplePassed /\ result.status = "returned" /\ ~result.scanned
    /\ result.groups # <<>> /\ result.groups = load_cache(result.before).groups
    /\ cache = result.before

\* the metadata list of a cache file names the cache file itself
ListsItself(c) == \E i \in DOMAIN c.meta : Path(c.meta[i][1]) = CachePath

\* C26: as long as the user changes no file, no cache that a run leaves lists
\* the cache file in its metadata, and no non-forced run finds the cache of
\* an earlier run stale.
C26_CacheNotInItsMetadata ==
    edits = 0 =>
        /\ (cache.exists /\ cache.kind = "ok") => ~ListsItself(cache)
        /\ (CacheTried /\ result.before.kind = "ok" /\ result.status = "returned")
              => ~result.stale

\* C27: a non-forced run that finds a well-formed cache with an empty
\* metadata list returns, with the cached data or with the result of a scan.
C27_EmptyCacheReturns ==
    (CacheTried /\ result.before.kind = "ok" /\ result.before.meta = <<>>) =>
        /\ result.status = "returned"
        /\ \/ result.scanned
           \/ result.groups = load_cache(result.before).groups

----------------------------------------------------------------------------
(* save_cache and load_cache on arbitrary scan results *)

MaxGroupLen == 2
MaxEntries == 1

\* the lists of at most MaxGroupLen paths
PathLists == UNION {[1..n -> Paths] : n \in 0..MaxGroupLen}

\* the (path, size, mtime) entries, and the lists of at most max of them
MetaEntries == {<<p, sz, m>> : p \in Paths, sz \in Sizes \ {0}, m \in 1..MaxMtime}
MetaLists(max) == UNION {[1..n -> MetaEntries] : n \in 0..max}

\* the confirmed_duplicates lists and the full_hashes_map dictionaries
GroupLists(max) == UNION {[1..n -> PathLists] : n \in 0..max}
HashMaps(max) ==
    UNION {[1..n -> {[key |-> h, files |-> f] : h \in 0..(HashSpace - 1), f \in PathLists}] :
            n \in 0..max}

ScanResult(g, md, hm) == [fn |-> "scan", groups |-> g, meta |-> md, map |-> hm]

\* the result of a scan that found files 1 and 2 to be duplicates, and the
\* results that differ from it in the groups, in the metadata or in the map
ScanResults(max) ==
    LET g0 == <<(<<1, 2>>)>>
        md0 == <<(<<1, 1, 1>>), (<<2, 1, MaxMtime>>)>>
        hm0 == <<[key |-> 0, files |-> <<1, 2>>]>>
    IN {ScanResult(g, md0, hm0) : g \in GroupLists(max)}
       \cup {ScanResult(g0, md, hm0) : md \in MetaLists(max)}
       \cup {ScanResult(g0, md0, hm) : hm \in HashMaps(max)}

InitRoundTrip ==
    /\ fs = [p \in Paths |-> NoFile]
    /\ cache = NoCache
    /\ result \in ScanResults(MaxEntries)
    /\ edits = 0
    /\ dst = NoDst
    /\ report = NoReport

\* save_cache(confirmed_duplicates, all_files_metadata, full_hashes_map, cache_path)
SaveCache(t) ==
    /\ result.fn = "scan"
    /\ cache' = save_cache(result.groups, result.meta, result.map, t)
    /\ result' = [result EXCEPT !.fn = "save_cache"]
    /\ UNCHANGED <<fs, edits, dst, report>>

\* load_cache(cache_path) on the file just saved
LoadCache ==
    /\ result.fn = "save_cache"
    /\ cache.exists
    /\ result' = [fn |-> "load_cache", groups |-> result.groups, meta |-> result.meta,
                  map |-> result.map, loaded |-> load_cache(cache)]
    /\ UNCHANGED <<fs, cache, edits, dst, report>>

NextRoundTrip ==
    \/ SaveCache(Now)
    \/ LoadCache

SpecRoundTrip == InitRoundTrip /\ [][NextRoundTrip]_vars

----------------------------------------------------------------------------
(* duplicate_file_finder.guess_keeper *)

MaxDepth == 2
MaxKeeperGroup == 3

\* A path is the sequence of its parts below the root, and a part is a number
\* that stands for a name, numbered in string order:
\*   0 "a (1).txt"   1 "a.txt"   2 "a_copy"   3 "a_copy (1).txt"   4 "a_copy.txt"
\*   5 "b.txt"
FileNames == {0, 1, 3, 4, 5}
DirNames == {2}

\* re.search(r"\(copy\)|[-_ ]copy", filename) and re.search(r"\(\d+\)", filename)
HasCopyIndicator(filename) == filename \in {2, 3, 4}
HasNumber(filename) == filename \in {0, 3}

KeeperPaths ==
    UNION {{d \o <<f>> : d \in [1..k -> DirNames], f \in FileNames} : k \in 0..(MaxDepth - 1)}

\* file_path.name
PathName(file_path) == file_path[Len(file_path)]

\* the score without the penalty for copy indicators
get_filename_score_flat(file_path) ==
    (IF HasNumber(PathName(file_path)) THEN 5 ELSE 0) + (Len(file_path) - 1)

get_filename_score(file_path) ==
    (IF HasCopyIndicator(PathName(file_path)) THEN 10 ELSE 0)
    + (IF HasNumber(PathName(file_path)) THEN 5 ELSE 0)
    + (Len(file_path) - 1)

\* p < q on paths: the parts compared one after the other
RECURSIVE PathLess(_, _)
PathLess(p, q) ==
    IF q = <<>> THEN FALSE
    ELSE IF p = <<>> THEN TRUE
    ELSE IF Head(p) # Head(q) THEN Head(p) < Head(q)
    ELSE PathLess(Tail(p), Tail(q))

\* a < b on (score, path) tuples
ScoreLess(a, b) == a[1] < b[1] \/ (a[1] = b[1] /\ PathLess(a[2], b[2]))

\* the choice that keeps the first file of the list
guess_keeper_first(group) == IF group = <<>> THEN 0 ELSE 1

guess_keeper(group) ==
    IF group = <<>> THEN 0
    ELSE LET scores == [i \in DOMAIN group |-> <<get_filename_score(group[i]), group[i]>>]
             \* scores.sort(); scores[0]
             best == CHOOSE s \in Range(scores) : \A t \in Range(scores) : s = t \/ ScoreLess(s, t)
             best_path == best[2]
         IN Min({i \in DOMAIN group : group[i] = best_path})

\* the groups: lists of at most max different paths
KeeperGroups(max) == UNION {Perms(S) : S \in {T \in SUBSET KeeperPaths : Cardinality(T) <= max}}

InitKeeper ==
    /\ fs = [p \in Paths |-> NoFile]
    /\ cache = NoCache
    /\ result \in {[fn |-> "group", group |-> g] : g \in KeeperGroups(MaxKeeperGroup)}
    /\ edits = 0
    /\ dst = NoDst
    /\ report = NoReport

GuessKeeper ==
    /\ result.fn = "group"
    /\ result' = [fn |-> "guess_keeper", group |-> result.group,
                  index |-> guess_keeper(result.group)]
    /\ UNCHANGED <<fs, cache, edits, dst, report>>

\* guess_keeper called on the same files in another order
GuessKeeperAgain(order) ==
    /\ result.fn = "guess_keeper"
    /\ result.group # <<>>
    /\ LET group == [i \in DOMAIN order |-> result.group[order[i]]]
       IN result' = [fn |-> "guess_keeper_again", group |-> group,
                     index |-> guess_keeper(group),
                     first_keeper |-> result.group[result.index]]
    /\ UNCHANGED <<fs, cache, edits, dst, report>>

NextKeeper ==
    \/ GuessKeeper
    \/ \E order \in Perms(DOMAIN result.group) : GuessKeeperAgain(order)

SpecKeeper == InitKeeper /\ [][NextKeeper]_vars

----------------------------------------------------------------------------
(* Properties of the keeper choice *)

KeeperChosen == result.fn \in {"guess_keeper", "guess_keeper_again"} /\ result.group # <<>>

\* C14: guess_keeper called on a permutation of a group designates the path
\* it designated for the group.
C14_KeeperOrderIndependent ==
    result.fn = "guess_keeper_again" =>
        /\ result.index \in DOMAIN result.group
        /\ result.group[result.index] = result.first_keeper

\* a group of three files given in another order got the same keeper, which
\* is not the first file of the reordered list
C14_Witness ==
    /\ result.fn = "guess_keeper_again"
    /\ Len(result.group) = 3
    /\ result.index # 1
    /\ result.group[result.index] = result.first_keeper

\* the score as stated: 10 for a copy indicator, 5 for a parenthesized
\* number, plus the depth of the path
StatedScore(p) ==
    (IF HasCopyIndicator(p[Len(p)]) THEN 10 ELSE 0) + (IF HasNumber(p[Len(p)]) THEN 5 ELSE 0)
    + (Len(p) - 1)

\* C15: for a non-empty group the index is in 1..len(group) and designates
\* the member with the smallest (score, path); at equal depth a name with a
\* copy indicator is kept only if no name without one is there.
C15_KeeperIsSmallest ==
    KeeperChosen =>
        /\ result.index \in 1..Len(result.group)
        /\ LET k == result.group[result.index]
           IN \A j \in DOMAIN result.group :
                 LET m == result.group[j]
                 IN /\ \/ StatedScore(k) < StatedScore(m)
                       \/ StatedScore(k) = StatedScore(m) /\ (k = m \/ PathLess(k, m))
                    /\ (Len(k) = Len(m) /\ HasCopyIndicator(k[Len(k)]))
                          => HasCopyIndicator(m[Len(m)])

\* a plain name was preferred to a copy of equal depth listed before it, and
\* a tie in score was broken by the path
C15_Witness ==
    /\ KeeperChosen /\ result.index > 1
    /\ LET k == result.group[result.index]
       IN /\ \E j \in DOMAIN result.group :
                /\ Len(result.group[j]) = Len(k)
                /\ HasCopyIndicator(PathName(result.group[j])) /\ ~HasCopyIndicator(PathName(k))
          /\ \E j \in DOMAIN result.group :
                /\ result.group[j] # k
                /\ StatedScore(result.group[j]) = StatedScore(k)
                /\ PathLess(k, result.group[j])

----------------------------------------------------------------------------
(* The pipeline run twice on a tree that no one changes in between *)

\* the parts of the root's files, in the order of the paths:
\* "a (1).txt", "a.txt", "a_copy/a.txt", "a_copy.txt", then "b.txt"
parts(p) ==
    CASE p = 1 -> <<0>>
      [] p = 2 -> <<1>>
      [] p = 3 -> <<2, 1>>
      [] p = 4 -> <<4>>
      [] OTHER -> <<5>>

\* the file guess_keeper designates in a group of the scan
KeeperOf(group) == group[guess_keeper([i \in DOMAIN group |-> parts(group[i])])]

\* the second run of duplicate_finder.find_duplicates
FindDuplicatesAgain(force, t) ==
    /\ result.fn = "find_duplicates"
    /\ \E o \in find_duplicates(force, t, FALSE) :
          /\ cache' = o.cache
          /\ result' = [fn |-> "find_duplicates_again", first |-> result, second |-> o.result]
    /\ UNCHANGED <<fs, edits, dst, report>>

\* the second run of duplicate_file_finder.find_duplicates
FindDuplicatesBytesAgain ==
    /\ result.fn = "find_duplicates_bytes"
    /\ \E statDone \in Perms(AllPathsWalked(Disk(fs, cache))) :
         \E edgeDone \in Perms(EdgeFiles(Disk(fs, cache))) :
            LET s == ByteScan(Disk(fs, cache), statDone, edgeDone)
            IN result' = [fn |-> "find_duplicates_bytes_again", first |-> result,
                          second |-> [status |-> "returned", groups |-> s.groups,
                                      files |-> PathsOf(s.meta)]]
    /\ UNCHANGED <<fs, cache, edits, dst, report>>

NextTwice ==
    \/ result = NoResult /\ FindDuplicates(FALSE, 1, FALSE)
    \/ result = NoResult /\ FindDuplicatesBytes
    \/ \E force \in BOOLEAN : FindDuplicatesAgain(force, Now)
    \/ FindDuplicatesBytesAgain

SpecTwice == InitPipe /\ [][NextTwice]_vars

RanTwice == result.fn \in {"find_duplicates_again", "find_duplicates_bytes_again"}

\* the groups as sets of files, and the keeper of each
Membership(groups) == {Range(groups[k]) : k \in DOMAIN groups}
KeeperChoices(groups) == {KeeperOf(groups[k]) : k \in DOMAIN groups}

\* C13: the second of two runs on an unchanged tree returns the groups of the
\* first, as sets of files, and the same keeper for each, whether it reads
\* the cache or scans again.
C13_Idempotent ==
    RanTwice =>
        /\ result.second.status = "returned"
        /\ Membership(result.second.groups) = Membership(result.first.groups)
        /\ KeeperChoices(result.second.groups) = KeeperChoices(result.first.groups)

----------------------------------------------------------------------------
(* The scanner on trees with links and files that cannot be stat'ed *)

\* "ok": a regular file; "noread": one that cannot be opened; "nostat": one
\* whose stat raises OSError after the walk has listed it; "symlink": a
\* symbolic link to a regular file with this content
Modes == {"ok", "noread", "nostat", "symlink"}

InitScan ==
    /\ fs \in [Paths -> {NoFile} \cup {File(c, 1, md) : c \in SmallContents, md \in Modes}]
    /\ cache = NoCache
    /\ result = NoResult
    /\ edits = 0
    /\ dst = NoDst
    /\ report = NoReport

SpecScan == InitScan /\ [][NextPipe]_vars

\* the regular, non-link files of non-zero size for which stat succeeds
ScanSet(d) ==
    {p \in DOMAIN d : d[p].exists /\ d[p].mode \notin {"symlink", "nostat"}
                      /\ Len(d[p].content) > 0}

\* C16: the files a scan of either variant reports are the regular files of
\* the root that are no symbolic links, have a size above zero and can be
\* stat'ed; the scan returns whatever the other files are.
C16_ScanFileSet ==
    (result.fn \in {"find_duplicates", "find_duplicates_bytes"}) =>
        /\ result.status = "returned"
        /\ Range(result.files) = ScanSet(result.tree)

----------------------------------------------------------------------------
(* duplicate_finder.analyze_folder_duplicates *)

\* file.parent: the cache file lies in the root (folder 0), files 1 and 2 in
\* one folder below it, every other file in a folder of its own
parent(file) == IF file = CachePath THEN 0 ELSE IF file <= 2 THEN 1 ELSE file - 1

\* all_file_hashes[file]: the hash the map holds for the file, or the hash
\* computed now for a file the scan found unique; NoHash if that fails
FileHash(d, full_hashes_map, file) ==
    LET held == {k \in DOMAIN full_hashes_map : file \in Range(full_hashes_map[k].files)}
    IN IF held # {} THEN full_hashes_map[CHOOSE k \in held : \A j \in held : j <= k].key
       ELSE get_full_hash(d, file)

\* folder_content_signatures: [key, files] per folder in first-insertion
\* order, the signature being the hashes of the files
FolderContentSignatures(d, all_files, full_hashes_map) ==
    LET Hashed(file) == FileHash(d, full_hashes_map, file) # NoHash
        files == SelectSeq(all_files, Hashed)
        byFolder == GroupKV(files, [i \in DOMAIN files |-> parent(files[i])])
    IN [k \in DOMAIN byFolder |->
          [folder |-> byFolder[k].key,
           hashes |-> {FileHash(d, full_hashes_map, f) : f \in Range(byFolder[k].files)}]]

\* folder_stats: files counted, sizes summed, latest modification time
RECURSIVE SumSizes(_, _)
SumSizes(d, files) ==
    IF files = {} THEN 0
    ELSE LET f == CHOOSE x \in files : TRUE
         IN st_size(d, f) + SumSizes(d, files \ {f})

FolderStats(d, all_files) ==
    LET ok == {f \in Range(all_files) : StatOk(d, f)}
        folders == {parent(f) : f \in ok}
    IN [folder \in folders |->
          LET files == {f \in ok : parent(f) = folder}
          IN [files |-> Cardinality(files), size |-> SumSizes(d, files),
              last_modified |-> CHOOSE m \in {st_mtime(d, f) : f \in files} :
                                   \A f \in files : st_mtime(d, f) <= m]]

\* the comparison that looks for a subset in one direction only
RelationshipOneWay(folder_a, folder_b, hashes_a, hashes_b) ==
    IF hashes_a = {} \/ hashes_b = {} THEN <<>>
    ELSE IF hashes_a = hashes_b
    THEN <<[type |-> "Exact Duplicate", folder_a |-> folder_a, folder_b |-> folder_b]>>
    ELSE IF hashes_a \subseteq hashes_b
    THEN <<[type |-> "Subset", subset |-> folder_a, superset |-> folder_b]>>
    ELSE <<>>

\* lines 340-361: what one pair of folders adds to folder_relationships
Relationship(folder_a, folder_b, hashes_a, hashes_b) ==
    IF hashes_a = {} \/ hashes_b = {} THEN <<>>
    ELSE IF hashes_a = hashes_b
    THEN <<[type |-> "Exact Duplicate", folder_a |-> folder_a, folder_b |-> folder_b]>>
    ELSE IF hashes_a \subseteq hashes_b
    THEN <<[type |-> "Subset", subset |-> folder_a, superset |-> folder_b]>>
    ELSE IF hashes_b \subseteq hashes_a
    THEN <<[type |-> "Subset", subset |-> folder_b, superset |-> folder_a]>>
    ELSE <<>>

analyze_folder_duplicates(d, all_files, full_hashes_map) ==
    LET sigs == FolderContentSignatures(d, all_files, full_hashes_map)
        pairs == Combinations2([k \in DOMAIN sigs |-> k], 1, 2)
    IN [relationships |->
          Flatten([i \in DOMAIN pairs |->
                     LET a == sigs[pairs[i][1]]
                         b == sigs[pairs[i][2]]
                     IN Relationship(a.folder, b.folder, a.hashes, b.hashes)]),
        stats |-> FolderStats(d, all_files)]

\* main: the analysis of what the scan just returned
AnalyzeFolderDuplicates ==
    /\ result.fn = "find_duplicates" /\ result.status = "returned"
    /\ LET a == analyze_folder_duplicates(Disk(fs, cache), result.files, result.map)
       IN result' = [fn |-> "analyze_folder_duplicates", tree |-> Disk(fs, cache),
                     all_files |-> result.files, map |-> result.map,
                     relationships |-> a.relationships, stats |-> a.stats]
    /\ UNCHANGED <<fs, cache, edits, dst, report>>

NextFolders ==
    \/ result = NoResult /\ FindDuplicates(FALSE, 1, FALSE)
    \/ AnalyzeFolderDuplicates

\* files of at most one block, file 1 possibly unreadable
InitFolders ==
    /\ fs \in {Unreadable(tree, p) :
                 tree \in [Paths -> {NoFile} \cup {File(c, 1, "ok") : c \in SmallContents}],
                 p \in {0, 1}}
    /\ cache = NoCache
    /\ result = NoResult
    /\ edits = 0
    /\ dst = NoDst
    /\ report = NoReport

SpecFolders == InitFolders /\ [][NextFolders]_vars

----------------------------------------------------------------------------
(* Properties of the folder analysis *)

Analyzed == result.fn = "analyze_folder_duplicates"

\* the fingerprints of the scanned files directly inside a folder
Signature(folder) ==
    {xxh64(result.tree[f].content) :
        f \in {g \in Range(result.all_files) : parent(g) = folder /\ ReadOk(result.tree, g)}}

\* the folders a relationship names
FoldersOf(r) == IF r.type = "Subset" THEN {r.subset, r.superset} ELSE {r.folder_a, r.folder_b}

\* C17: for every two folders with non-empty signatures one relationship is
\* emitted if the signatures are equal ("Exact Duplicate") or one is a
\* strict subset of the other ("Subset", naming subset and superset) and
\* none otherwise; a folder without scanned files is in no relationship.
C17_FolderRelationships ==
    Analyzed =>
        \A a, b \in {parent(f) : f \in AllPaths} :
            a < b =>
                LET about == {i \in DOMAIN result.relationships :
                                 FoldersOf(result.relationships[i]) = {a, b}}
                    sa == Signature(a)
                    sb == Signature(b)
                    One(r) == \E i \in about : about = {i} /\ result.relationships[i] = r
                IN IF sa = {} \/ sb = {} THEN about = {}
                   ELSE IF sa = sb
                   THEN \E i \in about : /\ about = {i}
                                         /\ result.relationships[i].type = "Exact Duplicate"
                   ELSE IF sa \subseteq sb
                   THEN One([type |-> "Subset", subset |-> a, superset |-> b])
                   ELSE IF sb \subseteq sa
                   THEN One([type |-> "Subset", subset |-> b, superset |-> a])
                   ELSE about = {}

\* a folder met second was found to be a strict subset of the one met first
C17_Witness ==
    /\ Analyzed
    /\ \E i \in DOMAIN result.relationships :
          LET r == result.relationships[i]
          IN /\ r.type = "Subset"
             /\ Signature(r.subset) # {} /\ Signature(r.subset) # Signature(r.superset)
             /\ Signature(r.subset) \subseteq Signature(r.superset)
             /\ \E j, k \in DOMAIN result.all_files :
                   j < k /\ parent(result.all_files[j]) = r.superset
                         /\ parent(result.all_files[k]) = r.subset
                         /\ \A m \in 1..(k - 1) : parent(result.all_files[m]) # r.subset

----------------------------------------------------------------------------
(* duplicate_file_finder: create_json_report and create_xlsx_report *)

\* file_to_group_map[file_path]: the last group that lists the file
GroupOf(confirmed_duplicates, file_path) ==
    LET held == {g \in DOMAIN confirmed_duplicates : file_path \in Range(confirmed_duplicates[g])}
    IN CHOOSE g \in held : \A h \in held : h <= g

\* the test of a group against processed_groups, answered "no" every time
NeverProcessed(g, processed_groups) == FALSE

\* id(group) in processed_groups
Processed(g, processed_groups) == g \in processed_groups

\* the record of a duplicate group and of a unique file in either format
GroupRecord(format, group, size) ==
    LET keeper_idx == guess_keeper([i \in DOMAIN group |-> parts(group[i])])
    IN IF format = "json"
       THEN [type |-> "duplicate_group", size_bytes |-> size, files |-> group,
             keep_index |-> keeper_idx - 1]
       ELSE [Keep |-> keeper_idx, Size |-> size, Files |-> group]

UniqueRecord(format, file_path, size) ==
    IF format = "json"
    THEN [type |-> "unique_file", size_bytes |-> size, file |-> file_path]
    ELSE [Keep |-> 1, Size |-> size, Files |-> <<file_path>>]

\* the loop over all_files_metadata from entry k on: the records written and
\* kept_files_info
RECURSIVE ReportLoop(_, _, _, _, _, _, _)
ReportLoop(format, all_files_metadata, confirmed_duplicates, k, processed_groups, records, kept) ==
    IF k > Len(all_files_metadata) THEN [records |-> records, kept_files_info |-> kept]
    ELSE LET file_path == all_files_metadata[k][1]
             size == all_files_metadata[k][2]
             dup == \E g \in DOMAIN confirmed_duplicates : file_path \in Range(confirmed_duplicates[g])
             g == GroupOf(confirmed_duplicates, file_path)
             group == confirmed_duplicates[g]
         IN IF dup /\ Processed(g, processed_groups)
            THEN ReportLoop(format, all_files_metadata, confirmed_duplicates, k + 1,
                            processed_groups, records, kept)
            ELSE IF dup
            THEN ReportLoop(format, all_files_metadata, confirmed_duplicates, k + 1,
                            processed_groups \cup {g},
                            Append(records, GroupRecord(format, group, size)),
                            Append(kept, <<KeeperOf(group), size>>))
            ELSE ReportLoop(format, all_files_metadata, confirmed_duplicates, k + 1,
                            processed_groups,
                            Append(records, UniqueRecord(format, file_path, size)),
                            Append(kept, <<file_path, size>>))

\* sum(s for _, s in kept_files_info)
RECURSIVE SumKept(_)
SumKept(kept) == IF kept = <<>> THEN 0 ELSE Head(kept)[2] + SumKept(Tail(kept))

\* the report file either generator writes
create_report(format, all_files_metadata, confirmed_duplicates) ==
    LET r == ReportLoop(format, all_files_metadata, confirmed_duplicates, 1, {}, <<>>, <<>>)
    IN [exists |-> TRUE, suffix |-> IF format = "json" THEN ".json" ELSE ".xlsx",
        sheet |-> IF format = "json" THEN "none" ELSE "Files to Process",
        files_to_process |-> r.records,
        summary |-> [total_files_to_keep |-> Len(r.kept_files_info),
                     total_size_to_keep_bytes |-> SumKept(r.kept_files_info)]]

\* main: the scan's result goes to the generator of the chosen format
CreateReport(format) ==
    /\ result.fn = "find_duplicates_bytes"
    /\ report' = create_report(format, result.meta, result.groups)
    /\ result' = [fn |-> "create_report", format |-> format, scan |-> result]
    /\ UNCHANGED <<fs, cache, edits, dst>>

NextReport ==
    \/ result = NoResult /\ FindDuplicatesBytes
    \/ CreateReport("json")
    \/ CreateReport("xlsx")

SpecReport == InitPipe /\ [][NextReport]_vars

Reported == result.fn = "create_report"

\* the files a record lists, and the file it keeps
RecordFiles(rec) == IF result.format = "xlsx" THEN Range(rec.Files)
                    ELSE IF rec.type = "unique_file" THEN {rec.file} ELSE Range(rec.files)
RecordKeeper(rec) == IF result.format = "xlsx" THEN rec.Files[rec.Keep]
                     ELSE IF rec.type = "unique_file" THEN rec.file
                     ELSE rec.files[rec.keep_index + 1]

\* the scanned files that no group lists
UniqueFiles ==
    Range(result.scan.files) \ UNION {Range(result.scan.groups[g]) : g \in DOMAIN result.scan.groups}

\* C22: in a generated report every scanned file is listed by exactly one
\* record, every group is one record and every file outside the groups one
\* record of its own; the summary counts the groups plus the unique files and
\* sums the sizes of the keepers and the unique files.
C22_ReportCoversEveryFile ==
    Reported =>
        LET recs == report.files_to_process
            kept == {RecordKeeper(recs[i]) : i \in DOMAIN recs}
        IN /\ \A p \in Range(result.scan.files) :
                 Cardinality({i \in DOMAIN recs : p \in RecordFiles(recs[i])}) = 1
           /\ \A g \in DOMAIN result.scan.groups :
                 Cardinality({i \in DOMAIN recs :
                                 RecordFiles(recs[i]) = Range(result.scan.groups[g])}) = 1
           /\ \A p \in UniqueFiles : \E i \in DOMAIN recs : RecordFiles(recs[i]) = {p}
           /\ \A i \in DOMAIN recs : RecordFiles(recs[i]) \subseteq Range(result.scan.files)
           /\ report.summary.total_files_to_keep =
                 Len(result.scan.groups) + Cardinality(UniqueFiles)
           /\ report.summary.total_size_to_keep_bytes =
                 SumSizes(Disk(result.scan.tree, NoCache), kept)

\* a report of a tree with one group of two files and one file of its own
C22_Witness ==
    /\ Reported
    /\ Len(result.scan.groups) = 1 /\ Cardinality(UniqueFiles) = 1
    /\ Len(report.files_to_process) = 2
    /\ report.summary.total_files_to_keep = 2

----------------------------------------------------------------------------
(* Copy and delete tasks called one after the other on small trees *)

MaxDstFiles == 2

\* the root's files hold at most one block; only file 1 can be empty
TaskTrees ==
    {tree \in [Paths -> {NoFile} \cup {File(c, 1, "ok") : c \in SmallContents}] :
        \A p \in Paths \ {1} : tree[p].exists => Len(tree[p].content) > 0}

InitCopy ==
    /\ fs \in TaskTrees
    /\ dst \in {NoDst} \cup {CopyTo(NoDst, Name(1), File(c, 1, "ok")) : c \in SmallContents}
    /\ cache = NoCache
    /\ result = NoResult
    /\ edits = 0
    /\ report = NoReport

NextCopy ==
    \/ /\ Cardinality(DOMAIN dst) <= MaxDstFiles
       /\ \E source_path \in Paths, skip_existing \in BOOLEAN :
            \E dest_base_path \in {Name(source_path), Name(1)} :
              \E io \in {<<FALSE, FALSE>>, <<TRUE, FALSE>>, <<TRUE, TRUE>>} :
                 PerformSingleCopy(source_path, dest_base_path, skip_existing, io[2], io[1])
    \/ \E file_path \in Paths, use_trash, ioFail \in BOOLEAN :
            PerformSingleDelete(file_path, use_trash, ioFail)

SpecCopy == InitCopy /\ [][NextCopy]_vars

----------------------------------------------------------------------------
(* Properties of the tasks *)

CopyCalled == result.fn = "_perform_single_copy"

\* the source of the last copy task, as the task found it
CopySource == result.tree[result.source]

\* the last copy task found a file at its destination
DestExisted == result.dest_base \in DOMAIN result.dest

\* no file that was under the destination root has gone or changed
DestFilesKept == \A name \in DOMAIN result.dest : name \in DOMAIN dst /\ dst[name] = result.dest[name]

Succeeded == result.status = "returned" /\ result.failed = <<>>

\* C5: a task that fails returns a FailedAction record and raises nothing.
C5_TaskFailureReturned ==
    result.fn \in {"_perform_single_copy", "_perform_single_delete"} =>
        /\ result.status = "returned"
        /\ result.io = "failed" => Len(result.failed) = 1

\* C6 as stated: a copy whose source holds the same bytes as the file at its
\* destination changes nothing under the destination and is a success.
C6_IdenticalCopyNoOp ==
    (CopyCalled /\ CopySource.exists /\ DestExisted
        /\ result.dest[result.dest_base].content = CopySource.content)
    => (dst = result.dest /\ Succeeded)

\* C6, amended: a copy whose non-empty source holds the same bytes as the
\* file at its destination changes nothing under the destination and is a
\* success with no FailedAction.
C6_NonEmptyIdenticalCopyNoOp ==
    (CopyCalled /\ CopySource.exists /\ Len(CopySource.content) > 0 /\ DestExisted
        /\ result.dest[result.dest_base].content = CopySource.content)
    => (dst = result.dest /\ Succeeded)

\* a non-empty source was copied onto an identical destination file, without
\* skip-existing, and nothing changed
C6_Witness ==
    /\ CopyCalled /\ ~result.flag
    /\ CopySource.exists /\ Len(CopySource.content) > 0 /\ DestExisted
    /\ result.dest[result.dest_base].content = CopySource.content
    /\ dst = result.dest /\ Succeeded

\* the source of the last copy differs from the file at its destination, and
\* skip-existing is not set
DifferingCopy ==
    /\ CopyCalled /\ ~result.flag /\ CopySource.exists /\ DestExisted
    /\ result.dest[result.dest_base].content # CopySource.content

\* the first counter whose suffixed name was free when the task started
FirstFree ==
    CHOOSE k \in 1..(Cardinality(DOMAIN result.dest) + 1) :
        /\ with_stem(result.dest_base, k) \notin DOMAIN result.dest
        /\ \A j \in 1..(k - 1) : with_stem(result.dest_base, j) \in DOMAIN result.dest

\* the destination now holds one more file, the source's content at name
CreatedAt(name) ==
    /\ DOMAIN dst = DOMAIN result.dest \cup {name}
    /\ dst[name].content = CopySource.content
    /\ DestFilesKept

\* C7 as stated: a copy whose source differs from the file at its destination
\* creates the source's content at the first free suffixed name and leaves
\* the files already there unchanged.
C7_DifferingCopySuffixed ==
    DifferingCopy => (Succeeded /\ CreatedAt(with_stem(result.dest_base, FirstFree)))

\* the suffixed names before the first free one that hold the source's content
HeldBefore ==
    {j \in 1..(FirstFree - 1) : result.dest[with_stem(result.dest_base, j)].content = CopySource.content}

\* C7, amended: a copy whose non-empty source differs from the file at its
\* destination never changes a file that was there.  When a suffixed name
\* before the first free one already holds the source's content, nothing is
\* created and the task succeeds; otherwise, unless the copy itself fails,
\* the source's content is created at the first free suffixed name.
C7_NonEmptyDifferingCopySuffixed ==
    (DifferingCopy /\ Len(CopySource.content) > 0) =>
        /\ DestFilesKept
        /\ HeldBefore # {} => (dst = result.dest /\ Succeeded)
        /\ (HeldBefore = {} /\ result.io # "failed") =>
              (Succeeded /\ CreatedAt(with_stem(result.dest_base, FirstFree)))
        /\ result.io = "failed" => dst = result.dest

\* a differing source went to the second suffixed name, the first one being
\* taken by yet another content
C7_Witness ==
    /\ DifferingCopy /\ Len(CopySource.content) > 0
    /\ FirstFree = 2 /\ HeldBefore = {}
    /\ Succeeded /\ CreatedAt(with_stem(result.dest_base, 2))

\* skip-existing was set and a file was at the destination of an existing source
SkipExistingCopy == CopyCalled /\ result.flag /\ CopySource.exists /\ DestExisted

\* C21 as stated: with skip-existing set and a file at the destination, the
\* copy writes nothing and is a success, whatever the source holds.
C21_SkipExistingUnconditional ==
    SkipExistingCopy => (dst = result.dest /\ Succeeded)

\* C21, amended: with skip-existing set and a file at the destination, the
\* copy of a non-empty source writes nothing and is a success with no
\* FailedAction, whatever the two files hold.
C21_NonEmptySkipExisting ==
    (SkipExistingCopy /\ Len(CopySource.content) > 0) => (dst = result.dest /\ Succeeded)

\* a non-empty source that differs from the file at its destination was
\* skipped
C21_Witness ==
    /\ SkipExistingCopy /\ Len(CopySource.content) > 0
    /\ result.dest[result.dest_base].content # CopySource.content
    /\ dst = result.dest /\ Succeeded

----------------------------------------------------------------------------
(* The cleaner run on small reports *)

\* the files of a row: one file, or two in ascending order
RowFiles == {<<p>> : p \in Paths} \cup {f \in {<<p, q>> : p, q \in Paths} : f[1] < f[2]}

\* a row of one file keeps it; a row of two may name no file of its own
Rows ==
    UNION {{[keep |-> k, files |-> f] : k \in (IF Len(f) = 1 THEN {1} ELSE 0..(Len(f) + 1))} :
            f \in RowFiles}

\* at most two rows, no file in both
RowLists ==
    {<<>>} \cup {<<r>> : r \in Rows}
           \cup {l \in {<<r1, r2>> : r1, r2 \in Rows} :
                    /\ Range(l[1].files) \cap Range(l[2].files) = {}
                    /\ l[1].files[1] < l[2].files[1]}

Reports ==
    {NoReport, Report(".csv", "none", FALSE, <<>>)}
    \cup {Report(".json", "none", s, rows) : s \in BOOLEAN, rows \in RowLists}
    \cup {Report(".xlsx", sheet, s, rows) :
            sheet \in {"Files to Process", "Duplicates", "none"}, s \in BOOLEAN, rows \in RowLists}

InitClean ==
    /\ fs \in [Paths -> {NoFile} \cup {File(c, 1, "ok") : c \in PlainContents \cap SmallContents}]
    /\ dst = NoDst
    /\ report \in Reports
    /\ cache = NoCache
    /\ result = NoResult
    /\ edits = 0

NextClean ==
    \/ \E dry_run, use_trash, skip_existing \in BOOLEAN :
         \E copy_destination \in {"none", "inside", "outside"} :
            ProcessReportActions(dry_run, use_trash, copy_destination, skip_existing)
    \/ \E copy \in BOOLEAN : ReadTasksFromJson(copy)
    \/ \E copy \in BOOLEAN : ReadTasksFromXlsx(copy)

SpecClean == InitClean /\ [][NextClean]_vars

----------------------------------------------------------------------------
(* Properties of a cleaner run *)

CleanCalled == result.fn = "process_report_actions"

\* a .json or .xlsx report with a sheet the reader accepts, every row of
\* which keeps one of its own files
ValidReport(rep) ==
    /\ rep.exists /\ rep.suffix \in {".json", ".xlsx"}
    /\ rep.suffix = ".xlsx" => rep.sheet \in {"Files to Process", "Duplicates"}
    /\ \A k \in DOMAIN rep.rows : rep.rows[k].keep \in DOMAIN rep.rows[k].files

\* C3: after a run in deletion mode (not dry, no copy destination) on a
\* report, every non-keeper of every row is gone and every keeper and every
\* unique file is as it was.
C3_DeletionRemovesNonKeepers ==
    (CleanCalled /\ ~result.dry_run /\ result.copy_destination = "none"
        /\ ValidReport(result.report))
    => \A k \in DOMAIN result.report.rows :
          LET row == result.report.rows[k]
          IN \A j \in DOMAIN row.files :
                IF j = row.keep THEN fs[row.files[j]] = result.tree[row.files[j]]
                ELSE ~fs[row.files[j]].exists

Keepers(rep, d) ==
    {rep.rows[k].files[rep.rows[k].keep] : k \in DOMAIN rep.rows} \cap {p \in Paths : d[p].exists}

\* C8: a run in copy mode leaves the root as it was and issues exactly one
\* copy task per existing keeper and unique file, to the mirrored relative
\* path under the destination, and no task for any other file.
C8_CopyModeCopiesKeepers ==
    (CleanCalled /\ ~result.dry_run /\ result.copy_destination # "none"
        /\ ValidReport(result.report))
    => /\ fs = result.tree
       /\ result.status = "returned"
       /\ \A i \in DOMAIN result.tasks :
             /\ result.tasks[i].type = "copy"
             /\ result.tasks[i].dest = Name(result.tasks[i].source)
       /\ \A p \in Keepers(result.report, result.tree) :
             Cardinality({i \in DOMAIN result.tasks : result.tasks[i].source = p}) = 1
       /\ \A i \in DOMAIN result.tasks :
             result.tasks[i].source \in Keepers(result.report, result.tree)

----------------------------------------------------------------------------
(* The failures of a run's tasks written back to the report *)

MaxFailed == 2

\* the call of lines 221, 224 and 227: the failures the tasks returned go to
\* the report the run was given, which line 122 found to exist
UpdateReportWithFailedActions ==
    /\ report.exists
    /\ result.fn \in {"_perform_single_copy", "_perform_single_delete"}
    /\ Len(report.failed) + Len(result.failed) <= MaxFailed
    /\ report' = update_report_with_failed_actions(report, result.failed)
    /\ result' = [fn |-> "_update_report_with_failed_actions", failed_actions |-> result.failed,
                  report |-> report]
    /\ UNCHANGED <<fs, dst, cache, edits>>

\* reports without rows, which the update does not read; only file 1 can be empty
InitUpdate ==
    /\ fs \in {tree \in TaskTrees : \A p \in Paths : tree[p].exists => tree[p].content \in {<<>>, <<0>>}}
    /\ dst = NoDst
    /\ report \in {rep \in Reports : rep.exists => rep.rows = <<>>}
    /\ cache = NoCache
    /\ result = NoResult
    /\ edits = 0

NextUpdate ==
    \/ \E p \in Paths, use_trash, ioFail \in BOOLEAN : PerformSingleDelete(p, use_trash, ioFail)
    \/ \E p \in Paths, ioFail \in BOOLEAN : PerformSingleCopy(p, Name(p), FALSE, TRUE, ioFail)
    \/ UpdateReportWithFailedActions

SpecUpdate == InitUpdate /\ [][NextUpdate]_vars

UpdateCalled == result.fn = "_update_report_with_failed_actions"

\* C18: after the failures of a run have been written back, the report file
\* holds every one of them after what it held, whatever its format.
C18_FailuresAppended ==
    UpdateCalled => report.failed = result.report.failed \o result.failed_actions

----------------------------------------------------------------------------
(* Properties of the report readers *)

ReaderCalled == result.fn \in {"_read_tasks_from_json", "_read_tasks_from_xlsx"}

\* the files the tasks read from a report act on
TaskSources == {result.read.tasks[i].source : i \in DOMAIN result.read.tasks}

\* the files of a row that a reader's mode acts on: the existing keeper in
\* copy mode, the existing non-keepers in deletion mode
RowTargets(row) ==
    {row.files[j] : j \in {i \in DOMAIN row.files :
                              /\ result.tree[row.files[i]].exists
                              /\ IF result.copy THEN i = row.keep
                                 ELSE i # row.keep}}

\* C19: a row whose keep index names none of its own files yields no task
\* for any of its files, and the reader goes on to the other rows, whose
\* tasks it returns.
C19_BadKeepIndexSkipped ==
    (ReaderCalled /\ (result.report.suffix = ".xlsx" =>
                         result.report.sheet \in {"Files to Process", "Duplicates"}))
    => /\ result.read.exc = "none"
       /\ \A k \in DOMAIN result.report.rows :
             LET row == result.report.rows[k]
             IN IF row.keep \in DOMAIN row.files
                THEN RowTargets(row) \subseteq TaskSources
                ELSE Range(row.files) \cap TaskSources = {}

\* what the reader of the report's format returns for the run in `result`
ReaderOf(rep) ==
    IF rep.suffix = ".json"
    THEN read_tasks_from_json(rep, result.tree, result.copy_destination # "none")
    ELSE read_tasks_from_xlsx(rep, result.tree, result.copy_destination # "none")

\* C20: on a missing report, a report of an unsupported suffix or a workbook
\* with neither task sheet the run returns normally and changes no file; on
\* an existing .json or .xlsx report it reaches the reader of that format,
\* whose tasks are the tasks of the run.
C20_BadReportReturns ==
    CleanCalled =>
        LET rep == result.report
        IN IF \/ ~rep.exists
              \/ rep.suffix \notin {".json", ".xlsx"}
              \/ rep.suffix = ".xlsx" /\ rep.sheet \notin {"Files to Process", "Duplicates"}
           THEN /\ result.status = "returned"
                /\ fs = result.tree /\ dst = result.dest /\ report = rep
           ELSE ReaderOf(rep).exc = "none" => result.tasks = ReaderOf(rep).tasks

----------------------------------------------------------------------------
(* The executor of process_report_actions, task by task.  `result` holds   *)
(* the run: its phase, each task's position and what the main thread has   *)
(* collected.                                                              *)

NoSummary == [exists |-> FALSE]

\* lines 236-252 of a copy task: what it decides to do before it writes
ResolveCopy(d, dd, source_path, dest_base_path, skip_existing) ==
    IF ~d[source_path].exists
    THEN [to |-> "failed", dest_path |-> NA,
          failed |-> <<FailedAction(source_path, NA, "Source file not found.")>>]
    ELSE IF st_size(d, source_path) = 0
    THEN [to |-> "failed", dest_path |-> NA,
          failed |-> <<FailedAction(source_path, NA, "Skipped: 0-byte file.")>>]
    ELSE IF skip_existing /\ dest_base_path \in DOMAIN dd
    THEN [to |-> "skipped", dest_path |-> NA, failed |-> <<>>]
    ELSE LET found == FindDestPath(dd, d[source_path], dest_base_path, 0)
         IN IF found.identical
            THEN [to |-> "skipped", dest_path |-> NA, failed |-> <<>>]
            ELSE [to |-> "copy", dest_path |-> found.dest_path, failed |-> <<>>]

\* ThreadPoolExecutor(max_workers=os.cpu_count() - 2)
max_workers(cpus) == cpus - 2

\* lines 176-196: the pool is created and every task submitted
StartExecutor(cpus, copy, skip_existing) ==
    /\ result = NoResult
    /\ report.exists
    /\ LET tasks == read_tasks_from_xlsx(report, fs, copy).tasks
           run == [fn |-> "executor", phase |-> "running", exc |-> "none", tasks |-> tasks,
                   cpus |-> cpus, max_workers |-> max_workers(cpus),
                   skip_existing |-> skip_existing,
                   pc |-> [i \in DOMAIN tasks |-> "queued"],
                   dest_path |-> [i \in DOMAIN tasks |-> NA],
                   outcome |-> [i \in DOMAIN tasks |-> <<>>],
                   writes |-> <<>>, collected |-> {}, processed |-> 0, failed |-> <<>>,
                   before |-> {}, started_after |-> {}, reported |-> NoSummary,
                   tree |-> fs, dest |-> dst, report |-> report]
       IN /\ tasks # <<>>
          /\ result' = IF max_workers(cpus) <= 0
                       THEN [run EXCEPT !.phase = "raised", !.exc = "ValueError"]
                       ELSE run
    /\ UNCHANGED <<fs, dst, report, cache, edits>>

Executing == result.fn = "executor" /\ result.phase \in {"running", "interrupted"}

\* a worker is free and task i is the first of the queue
CanStart(i) ==
    /\ Executing
    /\ i \in DOMAIN result.tasks /\ result.pc[i] = "queued"
    /\ \A j \in 1..(i - 1) : result.pc[j] # "queued"
    /\ Cardinality({j \in DOMAIN result.tasks : result.pc[j] = "resolved"}) < result.max_workers

Started(i) ==
    IF result.phase = "interrupted" THEN result.started_after \cup {i} ELSE result.started_after

\* a worker runs a copy task up to the point where it has its destination
TaskResolve(i) ==
    /\ CanStart(i) /\ result.tasks[i].type = "copy"
    /\ LET r == ResolveCopy(fs, dst, result.tasks[i].source, result.tasks[i].dest,
                            result.skip_existing)
       IN result' = [result EXCEPT !.pc[i] = IF r.to = "copy" THEN "resolved" ELSE "done",
                                   !.dest_path[i] = r.dest_path,
                                   !.outcome[i] = r.failed,
                                   !.started_after = Started(i)]
    /\ UNCHANGED <<fs, dst, report, cache, edits>>

\* lines 254-256: the worker writes the file it resolved
TaskCopy(i) ==
    /\ Executing
    /\ i \in DOMAIN result.tasks /\ result.pc[i] = "resolved"
    /\ dst' = CopyTo(dst, result.dest_path[i], fs[result.tasks[i].source])
    /\ result' = [result EXCEPT !.pc[i] = "done",
                                !.writes = Append(@, <<i, result.dest_path[i]>>)]
    /\ UNCHANGED <<fs, report, cache, edits>>

\* a worker runs a delete task
TaskDelete(i, use_trash) ==
    /\ CanStart(i) /\ result.tasks[i].type = "delete"
    /\ LET o == perform_single_delete(fs, dst, result.tasks[i].source, use_trash, FALSE)
       IN /\ fs' = o.fs
          /\ result' = [result EXCEPT !.pc[i] = "done", !.outcome[i] = o.failed,
                                      !.started_after = Started(i)]
    /\ UNCHANGED <<dst, report, cache, edits>>

\* lines 198-203: the main thread takes the result of a finished task
Collect(i) ==
    /\ result.fn = "executor" /\ result.phase = "running"
    /\ i \in DOMAIN result.tasks \ result.collected /\ result.pc[i] = "done"
    /\ result' = [result EXCEPT !.collected = @ \cup {i},
                                !.failed = @ \o result.outcome[i],
                                !.processed = @ + (IF result.outcome[i] = <<>> THEN 1 ELSE 0)]
    /\ UNCHANGED <<fs, dst, report, cache, edits>>

\* lines 213-230: every result is in, the summary is printed and the failures
\* go to the report
Summarize ==
    /\ result.fn = "executor" /\ result.phase = "running"
    /\ result.collected = DOMAIN result.tasks
    /\ report' = update_report_with_failed_actions(report, result.failed)
    /\ result' = [result EXCEPT !.phase = "returned",
                                !.reported = [exists |-> TRUE, processed |-> result.processed,
                                              failed |-> result.failed]]
    /\ UNCHANGED <<fs, dst, cache, edits>>

\* KeyboardInterrupt reaches the main thread in the loop of lines 198-203:
\* the with block is left through shutdown(wait=True), which lets the pool
\* finish every submitted task
Interrupt ==
    /\ result.fn = "executor" /\ result.phase = "running"
    /\ result.collected # DOMAIN result.tasks
    /\ result' = [result EXCEPT !.phase = "interrupted",
                                !.before = {i \in DOMAIN result.tasks : result.pc[i] # "queued"}]
    /\ UNCHANGED <<fs, dst, report, cache, edits>>

\* the pool has shut down and the exception leaves process_report_actions,
\* which has no handler for it
Propagate ==
    /\ result.fn = "executor" /\ result.phase = "interrupted"
    /\ \A i \in DOMAIN result.tasks : result.pc[i] = "done"
    /\ result' = [result EXCEPT !.phase = "raised", !.exc = "KeyboardInterrupt"]
    /\ UNCHANGED <<fs, dst, report, cache, edits>>

\* reports of the new layout whose rows keep one of their files, without summary
InitExecutor ==
    /\ fs \in TaskTrees
    /\ dst \in {NoDst} \cup {CopyTo(NoDst, Name(1), File(c, 1, "ok")) : c \in SmallContents}
    /\ report \in {rep \in Reports : /\ ValidReport(rep) /\ ~rep.summary
                                     /\ rep.suffix = ".xlsx" /\ rep.sheet = "Files to Process"}
    /\ cache = NoCache
    /\ result = NoResult
    /\ edits = 0

NextExecutor ==
    \/ \E cpus \in 1..MaxCpus, copy, skip_existing \in BOOLEAN :
          (~copy => ~skip_existing) /\ StartExecutor(cpus, copy, skip_existing)
    \/ \E i \in 1..MaxFiles : TaskResolve(i)
    \/ \E i \in 1..MaxFiles : TaskCopy(i)
    \/ \E i \in 1..MaxFiles, use_trash \in BOOLEAN : TaskDelete(i, use_trash)
    \/ \E i \in 1..MaxFiles : Collect(i)
    \/ Summarize
    \/ Interrupt
    \/ Propagate

SpecExecutor == InitExecutor /\ [][NextExecutor]_vars

C30_PoolHasWorker ==
    result.fn = "executor" => (result.max_workers >= 1 /\ result.exc # "ValueError")

----------------------------------------------------------------------------
(* duplicate_finder: the interactive sessions.  Here the tree under the    *)
(* root maps the relative path of every file that exists, a sequence of    *)
(* names, to the file: "a.txt", "x/a.txt", "x/sub/a.txt" and "y/a.txt".    *)

InteractivePaths == {<<0>>, <<1, 0>>, <<1, 1, 0>>, <<2, 0>>}

\* file.parent
ParentDir(file) == SubSeq(file, 1, Len(file) - 1)

\* the path lies below the folder
IsUnder(path, folder) == Len(path) > Len(folder) /\ SubSeq(path, 1, Len(folder)) = folder

\* the folder is on disk: directories are made for the files they hold
FolderExists(d, folder) == \E path \in DOMAIN d : IsUnder(path, folder)

\* shutil.rmtree(folder): the folder goes with everything below it
rmtree(d, folder) == [path \in {q \in DOMAIN d : ~IsUnder(q, folder)} |-> d[path]]

\* file.unlink()
unlink(d, file) == [path \in DOMAIN d \ {file} |-> d[path]]

\* sorted(paths)
RECURSIVE SortPaths(_)
SortPaths(S) ==
    IF S = {} THEN <<>>
    ELSE LET m == CHOOSE x \in S : \A y \in S \ {x} : PathLess(x, y)
         IN <<m>> \o SortPaths(S \ {m})

RECURSIVE RmTrees(_, _)
RmTrees(d, folders) ==
    IF folders = <<>> THEN d
    ELSE RmTrees(IF FolderExists(d, Head(folders)) THEN rmtree(d, Head(folders)) ELSE d,
                 Tail(folders))

RECURSIVE Unlinks(_, _)
Unlinks(d, files) == IF files = <<>> THEN d ELSE Unlinks(unlink(d, Head(files)), Tail(files))

\* the user's answer for one group, after any question that was asked again:
\* skip, keep the file with a number, or keep a folder and confirm
FileChoices ==
    {[kind |-> "S"]} \cup {[kind |-> "keep", number |-> i] : i \in 1..Cardinality(InteractivePaths)}
                     \cup {[kind |-> "F", number |-> i] : i \in 1..Cardinality(InteractivePaths)}

\* folders_to_delete = [f for f in parent_folders if f != folder_to_keep]
FoldersToDelete(parent_folders, folder_to_keep) ==
    LET Other(f) == f # folder_to_keep
    IN SelectSeq(parent_folders, Other)

\* the loop of lines 381-481 from group k on; an answer the prompt does not
\* offer leaves the group as it is.  log: what was done for each group shown
RECURSIVE FileDeletions(_, _, _, _, _)
FileDeletions(d, duplicate_sets, choices, k, log) ==
    IF k > Len(duplicate_sets) THEN [fs |-> d, log |-> log]
    ELSE LET current_group == SortPaths(Range(duplicate_sets[k]) \cap DOMAIN d)
             choice == choices[k]
             parent_folders == SortPaths({ParentDir(current_group[i]) : i \in DOMAIN current_group})
             shown(mode, keep, after) ==
                 Append(log, [group |-> current_group, mode |-> mode, keep |-> keep,
                              after |-> after])
         IN IF Len(current_group) < 2
            THEN FileDeletions(d, duplicate_sets, choices, k + 1, log)
            ELSE IF choice.kind = "F" /\ Len(parent_folders) > 1
                    /\ choice.number \in DOMAIN parent_folders
            THEN LET folder_to_keep == parent_folders[choice.number]
                     after == RmTrees(d, FoldersToDelete(parent_folders, folder_to_keep))
                 IN FileDeletions(after, duplicate_sets, choices, k + 1,
                                  shown("folder", folder_to_keep, after))
            ELSE IF choice.kind = "keep" /\ choice.number \in DOMAIN current_group
            THEN LET file_to_keep == current_group[choice.number]
                     Other(f) == f # file_to_keep
                     after == Unlinks(d, SelectSeq(current_group, Other))
                 IN FileDeletions(after, duplicate_sets, choices, k + 1,
                                  shown("file", file_to_keep, after))
            ELSE FileDeletions(d, duplicate_sets, choices, k + 1, shown("skip", <<>>, d))

\* the groups a scan of the tree returns, in any order: the files of equal
\* content, two or more
DuplicateSets(d) ==
    LET sets == {g \in {{q \in DOMAIN d : d[q].content = d[p].content} : p \in DOMAIN d} :
                    Cardinality(g) > 1}
    IN {[k \in DOMAIN o |-> SortPaths(o[k])] : o \in Perms(sets)}

\* main with --delete-files: every file holds one block, and the stable sort
\* of lines 374-375 leaves the list as it is
ProcessInteractiveFileDeletions ==
    /\ result = NoResult
    /\ \E duplicate_sets \in DuplicateSets(fs) :
         \E choices \in [DOMAIN duplicate_sets -> FileChoices] :
            LET o == FileDeletions(fs, duplicate_sets, choices, 1, <<>>)
            IN /\ duplicate_sets # <<>>
               /\ fs' = o.fs
               /\ result' = [fn |-> "process_interactive_file_deletions", tree |-> fs,
                             duplicate_sets |-> duplicate_sets, log |-> o.log]
    /\ UNCHANGED <<cache, edits, dst, report>>

InitInteractive ==
    /\ fs \in UNION {[S -> {File(c, 1, "ok") : c \in SmallContents \ {<<>>}}] :
                        S \in SUBSET InteractivePaths}
    /\ cache = NoCache
    /\ result = NoResult
    /\ edits = 0
    /\ dst = NoDst
    /\ report = NoReport

\* the signature of a folder: the hashes of the files that lie in it
FolderSignature(d, folder) == {xxh64(d[q].content) : q \in {r \in DOMAIN d : ParentDir(r) = folder}}

\* the relationships the analysis of the tree returns, the folders met in
\* any order
FolderRelationships(d) ==
    {LET pairs == Combinations2(order, 1, 2)
     IN Flatten([i \in DOMAIN pairs |->
                   Relationship(pairs[i][1], pairs[i][2], FolderSignature(d, pairs[i][1]),
                                FolderSignature(d, pairs[i][2]))]) :
       order \in Perms({ParentDir(q) : q \in DOMAIN d})}

\* the loop of lines 492-551 from relationship k on: the prompts shown, each
\* with the tree as it was then, and the tree that is left
RECURSIVE FolderDeletions(_, _, _, _, _, _)
FolderDeletions(d, folder_relationships, choices, k, deleted_folders, prompts) ==
    IF k > Len(folder_relationships) THEN [fs |-> d, prompts |-> prompts]
    ELSE LET rel == folder_relationships[k]
             folder_a_path == IF rel.type = "Exact Duplicate" THEN rel.folder_a ELSE rel.subset
             folder_b_path == IF rel.type = "Exact Duplicate" THEN rel.folder_b ELSE rel.superset
             folder_to_delete == IF choices[k] = "A" THEN folder_a_path ELSE folder_b_path
             shown == Append(prompts, [folder_a |-> folder_a_path, folder_b |-> folder_b_path,
                                       tree |-> d, deleted |-> deleted_folders])
         IN IF folder_a_path \in deleted_folders \/ folder_b_path \in deleted_folders
            THEN FolderDeletions(d, folder_relationships, choices, k + 1, deleted_folders, prompts)
            ELSE IF choices[k] = "S"
            THEN FolderDeletions(d, folder_relationships, choices, k + 1, deleted_folders, shown)
            \* rmtree of a folder that is gone raises OSError, which is caught
            ELSE IF ~FolderExists(d, folder_to_delete)
            THEN FolderDeletions(d, folder_relationships, choices, k + 1, deleted_folders, shown)
            ELSE FolderDeletions(rmtree(d, folder_to_delete), folder_relationships, choices, k + 1,
                                 deleted_folders \cup {folder_to_delete}, shown)

\* main with --interactive-delete
ProcessInteractiveDeletions ==
    /\ result = NoResult
    /\ \E folder_relationships \in FolderRelationships(fs) :
         \E choices \in [DOMAIN folder_relationships -> {"A", "B", "S"}] :
            LET o == FolderDeletions(fs, folder_relationships, choices, 1, {}, <<>>)
            \* main enters the session only when the scan found duplicates
            IN /\ \E duplicate_sets \in DuplicateSets(fs) : duplicate_sets # <<>>
               /\ fs' = o.fs
               /\ result' = [fn |-> "process_interactive_deletions", tree |-> fs,
                             folder_relationships |-> folder_relationships,
                             prompts |-> o.prompts]
    /\ UNCHANGED <<cache, edits, dst, report>>

NextInteractive ==
    \/ ProcessInteractiveFileDeletions
    \/ ProcessInteractiveDeletions

SpecInteractive == InitInteractive /\ [][NextInteractive]_vars

\* C28: when the user has chosen a folder to keep for a group and confirmed,
\* the files of the group that lie in that folder are still there once the
\* other folders have been deleted.
C28_KeptFolderSurvives ==
    result.fn = "process_interactive_file_deletions" =>
        \A k \in DOMAIN result.log :
            LET e == result.log[k]
            IN e.mode = "folder" =>
                  \A i \in DOMAIN e.group :
                      ParentDir(e.group[i]) = e.keep => e.group[i] \in DOMAIN e.after

\* C29: every relationship the folder session presents names two folders
\* that are on disk when it is presented, whatever was deleted before.
C29_PromptedFoldersExist ==
    result.fn = "process_interactive_deletions" =>
        \A k \in DOMAIN result.prompts :
            LET e == result.prompts[k]
            IN e.deleted # {} =>
                  (FolderExists(e.tree, e.folder_a) /\ FolderExists(e.tree, e.folder_b))

====
